---- MODULE Spec2Model ----
(***************************************************************************)
(* Model of the CompressionLib codecs: the Huffman entropy coder, the LZSS *)
(* dictionary coder and the DCT image decoder.  Files are byte sequences;  *)
(* every public entry point is one atomic action that maps the files it    *)
(* reads to the files it writes and a Result.                              *)
(***************************************************************************)
EXTENDS Integers, Naturals, Sequences, FiniteSets, TLC

VARIABLES
  inFile,      \* the file at inPath that a compress call reads
  compFile,    \* the compressed file (.huff / .lzss / .dct)
  outFile,     \* the file a decompress call writes
  result,      \* the Result of the last call
  op,          \* the entry point that ran last
  outcome,     \* "returned", or "crashed" when the call hit undefined behaviour
  encTree,     \* the prefix tree the last huffmanCompressFile built
  decTree,     \* the prefix tree the last call built, if it was a decompress
  liveNodes,   \* HuffNodes allocated by new and not yet deleted
  doubleFrees, \* deletes of a HuffNode that was already deleted
  trace,       \* what lzssDecompressBuffer did, if the last call ran it
  origin,      \* where compFile comes from: "none", "codec" (as a compress
               \* call wrote it), "prefix" (a proper prefix of that), "forged"
  outOk,       \* whether the last call could open its output file
  opened,      \* whether the last call opened (created or truncated) its output
  call,        \* the dispatch function the last call went through, if any
  m_runtimeDefaultAlgo, \* CompEngine: the default algorithm
  tlm,         \* CompEngine: the last value written to each telemetry channel
  handled      \* CompEngine: the last command and what its handler sent

vars == <<inFile, compFile, outFile, result, op, outcome, encTree, decTree,
          liveNodes, doubleFrees, trace, origin, outOk, opened, call,
          m_runtimeDefaultAlgo, tlm, handled>>

\* ---------------------------------------------------------------------------
\* Bounds of the model
\* ---------------------------------------------------------------------------
\* longest Huffman input buffer
MaxHuffLen == 3
\* longest Huffman input with skewed symbol counts
MaxSkewLen == 12
\* most occurrences of one byte value in a Huffman input built from counts
MaxCount == 3
\* longest LZSS input buffer over the full alphabet
MaxLzssLen == 4
\* longest run / periodic LZSS input
MaxRunLen == 20
\* longest LZSS input in which no byte repeats
MaxPlainLen == 10
\* longest arbitrary LZSS stream handed to the decoder
MaxStreamLen == 5
\* most coefficient blocks present in a .dct file
MaxBlocks == 3
\* how far the longest LZSS input reaches beyond the dictionary window
MaxWindowExcess == 30

\* ---------------------------------------------------------------------------
\* Bytes, files, Result
\* ---------------------------------------------------------------------------
Byte == 0..255

\* A file is its leading bytes, data, followed by `more` bytes of value
\* `fill`; only very large input images have more > 0.
NoFile == [exists |-> FALSE, data |-> <<>>, more |-> 0, fill |-> 0]
File(bytes) == [exists |-> TRUE, data |-> bytes, more |-> 0, fill |-> 0]
FilledFile(bytes, n, b) == [exists |-> TRUE, data |-> bytes, more |-> n, fill |-> b]
\* all bytes of the file, its size, and its byte at offset pos (0-based)
contents(f) == f.data \o [i \in 1..f.more |-> f.fill]
fileSize(f) == Len(f.data) + f.more
byteAt(f, pos) == IF pos < Len(f.data) THEN f.data[pos + 1] ELSE f.fill

\* struct Result, value-initialised by Result r{}
Result(bytesIn, bytesOut, error) ==
  [bytesIn |-> bytesIn, bytesOut |-> bytesOut, error |-> error]

\* static_cast<std::uint16_t>
ToU16(v) == v % 65536

RECURSIVE SeqToSet(_)
SeqToSet(s) == IF s = <<>> THEN {} ELSE {Head(s)} \cup SeqToSet(Tail(s))

Prefix(s, k) == SubSeq(s, 1, k)

\* all sequences over S of length at most n
RECURSIVE SeqsUpTo(_, _)
SeqsUpTo(S, n) ==
  IF n = 0 THEN {<<>>}
  ELSE LET shorter == SeqsUpTo(S, n - 1)
       IN shorter \cup {Append(s, x) : s \in {t \in shorter : Len(t) = n - 1}, x \in S}

\* ---------------------------------------------------------------------------
\* Endian-safe header I/O
\* ---------------------------------------------------------------------------
writeUint32(v) ==
  <<v % 256, (v \div 256) % 256, (v \div 65536) % 256, (v \div 16777216) % 256>>

writeUint16(v) == <<v % 256, (v \div 256) % 256>>

\* is.read of 4 bytes at offset pos (0-based); fails when fewer remain
readUint32(is, pos) ==
  IF pos + 4 > Len(is) THEN [ok |-> FALSE, v |-> 0, pos |-> pos]
  ELSE [ok |-> TRUE,
        v |-> is[pos + 1] + is[pos + 2] * 256 + is[pos + 3] * 65536
              + is[pos + 4] * 16777216,
        pos |-> pos + 4]

readUint16(is, pos) ==
  IF pos + 2 > Len(is) THEN [ok |-> FALSE, v |-> 0, pos |-> pos]
  ELSE [ok |-> TRUE, v |-> is[pos + 1] + is[pos + 2] * 256, pos |-> pos + 2]

\* ---------------------------------------------------------------------------
\* Huffman structures.  The heap of HuffNodes is an arena: a sequence of
\* nodes in allocation order, a node pointer is its index, nullptr is 0.
\* ---------------------------------------------------------------------------
nullptr == 0

HuffNode(symbol, freq, left, right) ==
  [symbol |-> symbol, freq |-> freq, left |-> left, right |-> right]

isLeaf(node) == node.left = nullptr /\ node.right = nullptr

\* Seeded fault: the comparison of a max-heap
NodePtrCompareLess(nodes, a, b) == nodes[a].freq < nodes[b].freq

\* NodePtrCompare: a orders before b in the priority queue when a.freq > b.freq
NodePtrCompare(nodes, a, b) == nodes[a].freq > nodes[b].freq

\* std::push_heap: sift the value up from the hole while its parent compares
\* lower (indices are 0-based as in the library, h is 1-based)
RECURSIVE pushHeap(_, _, _, _)
pushHeap(nodes, h, hole, value) ==
  IF hole > 0 /\ NodePtrCompare(nodes, h[((hole - 1) \div 2) + 1], value)
  THEN pushHeap(nodes, [h EXCEPT ![hole + 1] = h[((hole - 1) \div 2) + 1]],
                (hole - 1) \div 2, value)
  ELSE [h EXCEPT ![hole + 1] = value]

\* std::priority_queue::push
pqPush(nodes, h, id) == pushHeap(nodes, Append(h, id), Len(h), id)

\* std::__adjust_heap: move the hole down to a leaf along the preferred child
RECURSIVE adjustHeap(_, _, _, _)
adjustHeap(nodes, h, hole, len) ==
  IF hole < (len - 1) \div 2
  THEN LET second == 2 * (hole + 1)
           child == IF NodePtrCompare(nodes, h[second + 1], h[second])
                    THEN second - 1 ELSE second
       IN adjustHeap(nodes, [h EXCEPT ![hole + 1] = h[child + 1]], child, len)
  ELSE IF len % 2 = 0 /\ hole = (len - 2) \div 2
       THEN [h |-> [h EXCEPT ![hole + 1] = h[2 * (hole + 1)]],
             hole |-> 2 * (hole + 1) - 1]
       ELSE [h |-> h, hole |-> hole]

\* std::priority_queue::pop (std::pop_heap, then pop_back)
pqPop(nodes, h) ==
  IF Len(h) <= 1 THEN <<>>
  ELSE LET len == Len(h) - 1
           value == h[Len(h)]
           down == adjustHeap(nodes, Prefix(h, len), 0, len)
       IN pushHeap(nodes, down.h, down.hole, value)

pqTop(h) == h[1]

Present(freqs) == {i \in Byte : freqs[i] > 0}

SetMin(S) == CHOOSE x \in S : \A y \in S : x <= y

\* buildTree, first loop: one leaf per symbol of nonzero frequency, in
\* ascending symbol order, each pushed on the queue
RECURSIVE pushLeaves(_, _, _, _)
pushLeaves(freqs, todo, nodes, pq) ==
  IF todo = {} THEN [nodes |-> nodes, pq |-> pq]
  ELSE LET i == SetMin(todo)
           nodes2 == Append(nodes, HuffNode(i, freqs[i], nullptr, nullptr))
       IN pushLeaves(freqs, todo \ {i}, nodes2, pqPush(nodes2, pq, Len(nodes2)))

\* Seeded fault: the merge loop with the children swapped (a right, b left)
RECURSIVE mergeNodesSwapped(_, _)
mergeNodesSwapped(nodes, pq) ==
  IF Len(pq) > 1
  THEN LET a == pqTop(pq)
           pq1 == pqPop(nodes, pq)
           b == pqTop(pq1)
           pq2 == pqPop(nodes, pq1)
           nodes2 == Append(nodes,
                       HuffNode(0, nodes[a].freq + nodes[b].freq, b, a))
       IN mergeNodesSwapped(nodes2, pqPush(nodes2, pq2, Len(nodes2)))
  ELSE [nodes |-> nodes, root |-> pqTop(pq)]

\* Seeded fault: the merge loop making a parent with a left child only
RECURSIVE mergeNodesLeftOnly(_, _)
mergeNodesLeftOnly(nodes, pq) ==
  IF Len(pq) > 1
  THEN LET a == pqTop(pq)
           pq1 == pqPop(nodes, pq)
           b == pqTop(pq1)
           pq2 == pqPop(nodes, pq1)
           nodes2 == Append(nodes,
                       HuffNode(0, nodes[a].freq + nodes[b].freq, a, nullptr))
       IN mergeNodesLeftOnly(nodes2, pqPush(nodes2, pq2, Len(nodes2)))
  ELSE [nodes |-> nodes, root |-> pqTop(pq)]

\* buildTree, merge loop: pop a, pop b, push the parent (a left, b right)
RECURSIVE mergeNodes(_, _)
mergeNodes(nodes, pq) ==
  IF Len(pq) > 1
  THEN LET a == pqTop(pq)
           pq1 == pqPop(nodes, pq)
           b == pqTop(pq1)
           pq2 == pqPop(nodes, pq1)
           nodes2 == Append(nodes,
                       HuffNode(0, nodes[a].freq + nodes[b].freq, a, b))
       IN mergeNodes(nodes2, pqPush(nodes2, pq2, Len(nodes2)))
  ELSE [nodes |-> nodes, root |-> pqTop(pq)]

NoTree == [nodes |-> <<>>, root |-> nullptr]

\* Seeded fault: a buildTree that allocates a root even for an empty histogram
buildTreeAlwaysRoot(freqs) ==
  LET start == pushLeaves(freqs, Present(freqs), <<>>, <<>>)
  IN IF Len(start.pq) = 0
     THEN [nodes |-> <<HuffNode(0, 0, nullptr, nullptr)>>, root |-> 1]
     ELSE IF Len(start.pq) = 1
          THEN [nodes |-> start.nodes, root |-> pqTop(start.pq)]
          ELSE mergeNodes(start.nodes, start.pq)

buildTree(freqs) ==
  LET start == pushLeaves(freqs, Present(freqs), <<>>, <<>>)
  IN IF Len(start.pq) = 0 THEN NoTree
     ELSE IF Len(start.pq) = 1
          THEN [nodes |-> start.nodes, root |-> pqTop(start.pq)]
          ELSE mergeNodes(start.nodes, start.pq)

\* Seeded fault: freeTree without the recursion, deleting only the node given
freeTreeShallow(nodes, node) == IF node = nullptr THEN <<>> ELSE <<node>>

\* freeTree: the node pointers deleted, in order (post-order)
RECURSIVE freeTree(_, _)
freeTree(nodes, node) ==
  IF node = nullptr THEN <<>>
  ELSE freeTree(nodes, nodes[node].left) \o freeTree(nodes, nodes[node].right)
       \o <<node>>

NoCodes == [s \in Byte |-> <<>>]

\* Seeded fault: buildCodeTable without the one-bit code for a root leaf
RECURSIVE buildCodeTableNoRootBit(_, _, _, _)
buildCodeTableNoRootBit(nodes, node, prefix, table) ==
  IF node = nullptr THEN table
  ELSE IF isLeaf(nodes[node])
       THEN [table EXCEPT ![nodes[node].symbol] = prefix]
       ELSE buildCodeTableNoRootBit(nodes, nodes[node].right, Append(prefix, 1),
              buildCodeTableNoRootBit(nodes, nodes[node].left, Append(prefix, 0), table))

\* Seeded fault: buildCodeTable pushing false for the right child too
RECURSIVE buildCodeTableSameBit(_, _, _, _)
buildCodeTableSameBit(nodes, node, prefix, table) ==
  IF node = nullptr THEN table
  ELSE IF isLeaf(nodes[node])
       THEN [table EXCEPT ![nodes[node].symbol] =
               IF prefix = <<>> THEN <<0>> ELSE prefix]
       ELSE buildCodeTableSameBit(nodes, nodes[node].right, Append(prefix, 0),
              buildCodeTableSameBit(nodes, nodes[node].left, Append(prefix, 0), table))

\* buildCodeTable: symbol -> bit string, left = 0, right = 1
RECURSIVE buildCodeTable(_, _, _, _)
buildCodeTable(nodes, node, prefix, table) ==
  IF node = nullptr THEN table
  ELSE IF isLeaf(nodes[node])
       THEN [table EXCEPT ![nodes[node].symbol] =
               IF prefix = <<>> THEN <<0>> ELSE prefix]
       ELSE buildCodeTable(nodes, nodes[node].right, Append(prefix, 1),
              buildCodeTable(nodes, nodes[node].left, Append(prefix, 0), table))

\* ---------------------------------------------------------------------------
\* Bit writer / reader
\* ---------------------------------------------------------------------------
BitWriter == [current |-> 0, bitCount |-> 0, os |-> <<>>]

writeBit(bw, bit) ==
  LET cur == ((bw.current * 2) % 256) + bit
  IN IF bw.bitCount + 1 = 8
     THEN [current |-> 0, bitCount |-> 0, os |-> Append(bw.os, cur)]
     ELSE [current |-> cur, bitCount |-> bw.bitCount + 1, os |-> bw.os]

RECURSIVE writeBits(_, _)
writeBits(bw, bits) ==
  IF bits = <<>> THEN bw ELSE writeBits(writeBit(bw, Head(bits)), Tail(bits))

\* Seeded fault: flush that drops the bits of an incomplete last byte
flushDropsPartial(bw) == [current |-> 0, bitCount |-> 0, os |-> bw.os]

\* current <<= (8 - bitCount), as a uint8
flush(bw) ==
  IF bw.bitCount > 0
  THEN [current |-> 0, bitCount |-> 0,
        os |-> Append(bw.os, (bw.current * (2 ^ (8 - bw.bitCount))) % 256)]
  ELSE bw

\* BitReader over the stream is, whose get pointer is at pos (0-based)
BitReader(pos) == [pos |-> pos, current |-> 0, bitsLeft |-> 0]

\* readBit: (ok, bit) and the reader afterwards; ok = FALSE at end of file
readBit(is, br) ==
  IF br.bitsLeft = 0 /\ br.pos >= Len(is)
  THEN [ok |-> FALSE, bit |-> 0, br |-> br]
  ELSE LET cur == IF br.bitsLeft = 0 THEN is[br.pos + 1] ELSE br.current
           left == IF br.bitsLeft = 0 THEN 8 ELSE br.bitsLeft
           pos == IF br.bitsLeft = 0 THEN br.pos + 1 ELSE br.pos
       IN [ok |-> TRUE, bit |-> cur \div 128,
           br |-> [pos |-> pos, current |-> (cur * 2) % 256, bitsLeft |-> left - 1]]

\* ---------------------------------------------------------------------------
\* huffmanCompressFile
\* ---------------------------------------------------------------------------
HUF1 == <<72, 85, 70, 49>>

\* the frequency table of the input: freqs[b]++ for every byte
histogram(data) ==
  [s \in Byte |-> Cardinality({i \in 1..Len(data) : data[i] = s})]

\* Seeded fault: a header table that stores a count of 1 for every symbol
\* present instead of its frequency
RECURSIVE symbolEntriesUnitFreq(_, _)
symbolEntriesUnitFreq(freqs, todo) ==
  IF todo = {} THEN <<>>
  ELSE LET i == SetMin(todo)
       IN <<i>> \o writeUint32(1) \o symbolEntriesUnitFreq(freqs, todo \ {i})

\* for each symbol of nonzero frequency, ascending: symbol, then freq as u32
RECURSIVE symbolEntries(_, _)
symbolEntries(freqs, todo) ==
  IF todo = {} THEN <<>>
  ELSE LET i == SetMin(todo)
       IN <<i>> \o writeUint32(freqs[i]) \o symbolEntries(freqs, todo \ {i})

huffHeader(size, freqs) ==
  HUF1 \o writeUint32(size) \o writeUint16(Cardinality(Present(freqs)))
       \o symbolEntries(freqs, Present(freqs))

\* the encoded bitstream: the code of every input byte, in order
RECURSIVE writeCodes(_, _, _)
writeCodes(bw, data, codes) ==
  IF data = <<>> THEN bw
  ELSE writeCodes(writeBits(bw, codes[Head(data)]), Tail(data), codes)

\* The whole call.  inF: the input file; old: the output file before the
\* call; canOpen: whether the output file can be opened.  Gives the Result,
\* the output file afterwards, the tree built and the nodes deleted.
huffmanCompressFile(inF, old, canOpen) ==
  IF ~inF.exists
  THEN [r |-> Result(0, 0, -1), out |-> old, opened |-> FALSE, tree |-> NoTree, freed |-> <<>>]
  ELSE IF contents(inF) = <<>>
  THEN IF ~canOpen
       THEN [r |-> Result(0, 0, -2), out |-> old, opened |-> FALSE, tree |-> NoTree, freed |-> <<>>]
       ELSE [r |-> Result(0, 4 + 4 + 2, 0),
             opened |-> TRUE, out |-> File(HUF1 \o writeUint32(0) \o writeUint16(0)),
             tree |-> NoTree, freed |-> <<>>]
  ELSE LET data == contents(inF)
           freqs == histogram(data)
           tree == buildTree(freqs)
           codes == buildCodeTable(tree.nodes, tree.root, <<>>, NoCodes)
           bytes == huffHeader(Len(data), freqs)
                      \o flush(writeCodes(BitWriter, data, codes)).os
       IN IF ~canOpen
          THEN [r |-> Result(Len(data), 0, -2), out |-> old, opened |-> FALSE, tree |-> tree,
                freed |-> freeTree(tree.nodes, tree.root)]
          ELSE [r |-> Result(Len(data), Len(bytes), 0), opened |-> TRUE, out |-> File(bytes),
                tree |-> tree, freed |-> freeTree(tree.nodes, tree.root)]

\* ---------------------------------------------------------------------------
\* huffmanDecompressFile
\* ---------------------------------------------------------------------------
NoFreqs == [s \in Byte |-> 0]

\* the header's table: numSymbols times (symbol, u32 freq), freqs[sym] = f
RECURSIVE readFreqs(_, _, _, _, _)
readFreqs(is, pos, i, numSymbols, freqs) ==
  IF i >= numSymbols THEN [ok |-> TRUE, freqs |-> freqs, pos |-> pos]
  ELSE IF pos >= Len(is) THEN [ok |-> FALSE, freqs |-> freqs, pos |-> pos]
  ELSE LET f == readUint32(is, pos + 1)
       IN IF ~f.ok THEN [ok |-> FALSE, freqs |-> freqs, pos |-> pos]
          ELSE readFreqs(is, f.pos, i + 1, numSymbols,
                         [freqs EXCEPT ![is[pos + 1]] = f.v])

\* descend from node until a leaf: "leaf", or "eof" when the bits run out,
\* or "nochild" when the bit leads to a null child
RECURSIVE descend(_, _, _, _)
descend(nodes, node, is, br) ==
  IF isLeaf(nodes[node]) THEN [status |-> "leaf", node |-> node, br |-> br]
  ELSE LET b == readBit(is, br)
           next == IF b.bit = 1 THEN nodes[node].right ELSE nodes[node].left
       IN IF ~b.ok THEN [status |-> "eof", node |-> node, br |-> br]
          ELSE IF next = nullptr
               THEN [status |-> "nochild", node |-> node, br |-> b.br]
               ELSE descend(nodes, next, is, b.br)

\* while (output.size() < origSize): decode one symbol
RECURSIVE decodeSymbols(_, _, _, _, _)
decodeSymbols(tree, is, br, output, origSize) ==
  IF Len(output) >= origSize THEN [status |-> "done", output |-> output]
  ELSE LET d == descend(tree.nodes, tree.root, is, br)
       IN IF d.status # "leaf" THEN [status |-> d.status, output |-> output]
          ELSE decodeSymbols(tree, is, d.br,
                             Append(output, tree.nodes[d.node].symbol), origSize)

\* The part of the call after the header was read
huffmanDecodeBody(is, old, canOpen, origSize, table) ==
  LET tree == buildTree(table.freqs)
      all == freeTree(tree.nodes, tree.root)
      n == Len(is)
      dec == decodeSymbols(tree, is, BitReader(table.pos), <<>>, origSize)
  IN IF origSize = 0
     THEN IF ~canOpen
          THEN [r |-> Result(n, 0, -2), out |-> old, opened |-> FALSE, tree |-> tree, freed |-> all]
          ELSE [r |-> Result(n, 0, 0), opened |-> TRUE, out |-> File(<<>>), tree |-> tree,
                freed |-> all]
     ELSE IF tree.root = nullptr
     THEN [r |-> Result(n, 0, -3), out |-> old, opened |-> FALSE, tree |-> tree, freed |-> <<>>]
     ELSE IF dec.status # "done"
     THEN [r |-> Result(n, 0, -3), out |-> old, opened |-> FALSE, tree |-> tree, freed |-> all]
     ELSE IF ~canOpen
     THEN [r |-> Result(n, 0, -2), out |-> old, opened |-> FALSE, tree |-> tree, freed |-> all]
     ELSE [r |-> Result(n, Len(dec.output), 0), opened |-> TRUE, out |-> File(dec.output),
           tree |-> tree, freed |-> all]

\* The whole call.  cf: the .huff file; old: the output file before the call
huffmanDecompressFile(cf, old, canOpen) ==
  LET is == cf.data
      n == Len(is)
      fail(e) == [r |-> Result(n, 0, e), out |-> old, opened |-> FALSE, tree |-> NoTree,
                  freed |-> <<>>]
      origSize == readUint32(is, 4)
      numSymbols == readUint16(is, 8)
      table == readFreqs(is, 10, 0, numSymbols.v, NoFreqs)
  IN IF ~cf.exists
     THEN [r |-> Result(0, 0, -1), out |-> old, opened |-> FALSE, tree |-> NoTree, freed |-> <<>>]
     ELSE IF n < 4 \/ Prefix(is, 4) # HUF1 THEN fail(-3)
     ELSE IF ~origSize.ok THEN fail(-3)
     ELSE IF ~numSymbols.ok THEN fail(-3)
     ELSE IF ~table.ok THEN fail(-3)
     ELSE huffmanDecodeBody(is, old, canOpen, origSize.v, table)

\* ---------------------------------------------------------------------------
\* LZSS
\* ---------------------------------------------------------------------------
windowSize == 4096
lookahead == 18
minMatch == 3

\* struct Params as lzssCompressFile sets it
Params == [windowSize |-> windowSize, lookahead |-> lookahead,
           minMatch |-> minMatch]

\* struct Match, default-initialised
NoMatch == [offset |-> 0, length |-> 0]

\* while (k < maxLen && in[j + k] == in[pos + k]) ++k
RECURSIVE matchLength(_, _, _, _, _)
matchLength(in, j, pos, k, maxLen) ==
  IF k < maxLen /\ in[j + k + 1] = in[pos + k + 1]
  THEN matchLength(in, j, pos, k + 1, maxLen)
  ELSE k

\* Seeded fault: a scan that replaces the best match on an equal length too
RECURSIVE scanWindowKeepLast(_, _, _, _, _)
scanWindowKeepLast(in, pos, j, maxLen, best) ==
  IF j >= pos THEN best
  ELSE LET k == matchLength(in, j, pos, 0, maxLen)
       IN IF k >= best.length /\ k > 0
          THEN IF k = maxLen THEN [offset |-> pos - j, length |-> k]
               ELSE scanWindowKeepLast(in, pos, j + 1, maxLen,
                                       [offset |-> pos - j, length |-> k])
          ELSE scanWindowKeepLast(in, pos, j + 1, maxLen, best)

\* for (j = windowStart; j < pos; ++j): keep the first longest match
RECURSIVE scanWindow(_, _, _, _, _)
scanWindow(in, pos, j, maxLen, best) ==
  IF j >= pos THEN best
  ELSE LET k == matchLength(in, j, pos, 0, maxLen)
       IN IF k > best.length
          THEN IF k = maxLen THEN [offset |-> pos - j, length |-> k]
               ELSE scanWindow(in, pos, j + 1, maxLen,
                               [offset |-> pos - j, length |-> k])
          ELSE scanWindow(in, pos, j + 1, maxLen, best)

\* Seeded fault: a match of exactly minMatch bytes is discarded too
findBestMatchStrict(in, pos, params) ==
  IF pos = 0 THEN NoMatch
  ELSE LET n == Len(in)
           windowStart == IF pos > params.windowSize
                          THEN pos - params.windowSize ELSE 0
           maxLen == IF pos + params.lookahead <= n
                     THEN params.lookahead ELSE n - pos
           best == scanWindow(in, pos, windowStart, maxLen, NoMatch)
       IN IF best.length <= params.minMatch THEN NoMatch ELSE best

\* Seeded fault: a search that starts at the first byte of the input instead
\* of the start of the window
findBestMatchNoWindow(in, pos, params) ==
  IF pos = 0 THEN NoMatch
  ELSE LET n == Len(in)
           maxLen == IF pos + params.lookahead <= n
                     THEN params.lookahead ELSE n - pos
           best == scanWindow(in, pos, 0, maxLen, NoMatch)
       IN IF best.length < params.minMatch THEN NoMatch ELSE best

findBestMatch(in, pos, params) ==
  IF pos = 0 THEN NoMatch
  ELSE LET n == Len(in)
           windowStart == IF pos > params.windowSize
                          THEN pos - params.windowSize ELSE 0
           maxLen == IF pos + params.lookahead <= n
                     THEN params.lookahead ELSE n - pos
           best == scanWindow(in, pos, windowStart, maxLen, NoMatch)
       IN IF best.length < params.minMatch THEN NoMatch ELSE best

\* Seeded fault: the offset of a match record written high byte first
matchRecordBigEndian(best) ==
  <<(ToU16(best.offset) \div 256) % 256, ToU16(best.offset) % 256,
    best.length % 256>>

\* the 3-byte match record: offset as u16 little-endian, length as u8
matchRecord(best) ==
  <<ToU16(best.offset) % 256, (ToU16(best.offset) \div 256) % 256,
    best.length % 256>>

\* Seeded fault: a group loop that sets the flag bit of a literal, not of a
\* match
RECURSIVE compressGroupFlagsInverted(_, _, _, _, _, _)
compressGroupFlagsInverted(in, pos, bit, flags, out, params) ==
  IF bit < 8 /\ pos < Len(in)
  THEN LET best == findBestMatch(in, pos, params)
       IN IF best.length > 0
          THEN compressGroupFlagsInverted(in, pos + best.length, bit + 1,
                 flags, out \o matchRecord(best), params)
          ELSE compressGroupFlagsInverted(in, pos + 1, bit + 1, flags + 2 ^ bit,
                 Append(out, in[pos + 1]), params)
  ELSE [pos |-> pos, flags |-> flags, out |-> out]

\* for (bit = 0; bit < 8 && pos < n; ++bit): up to 8 tokens of one group
RECURSIVE compressGroup(_, _, _, _, _, _)
compressGroup(in, pos, bit, flags, out, params) ==
  IF bit < 8 /\ pos < Len(in)
  THEN LET best == findBestMatch(in, pos, params)
       IN IF best.length > 0
          THEN compressGroup(in, pos + best.length, bit + 1,
                             flags + 2 ^ bit, out \o matchRecord(best), params)
          ELSE compressGroup(in, pos + 1, bit + 1, flags,
                             Append(out, in[pos + 1]), params)
  ELSE [pos |-> pos, flags |-> flags, out |-> out]

\* while (pos < n): reserve the flag byte, emit the group, backpatch the flags
RECURSIVE compressLoop(_, _, _, _)
compressLoop(in, pos, out, params) ==
  IF pos < Len(in)
  THEN LET flagIndex == Len(out)
           g == compressGroup(in, pos, 0, 0, Append(out, 0), params)
       IN compressLoop(in, g.pos, [g.out EXCEPT ![flagIndex + 1] = g.flags],
                       params)
  ELSE out

lzssCompressBuffer(in, params) == compressLoop(in, 0, <<>>, params)

\* What lzssDecompressBuffer has done so far: the output, the input position,
\* every complete match record it read (with the output length before it),
\* whether any read was outside its buffer, and whether a group ended at the
\* end of the input on a flag bit that is 1.
NoTrace == [ok |-> TRUE, out |-> <<>>, pos |-> 0, records |-> <<>>,
            oob |-> FALSE, matchAtEnd |-> FALSE, shortMatch |-> FALSE]

\* in[i] and out[i] (0-based); a read outside the buffer is undefined
\* behaviour: the value is arbitrary and the read is flagged
readAt(buf, i) == IF i >= 0 /\ i < Len(buf) THEN buf[i + 1] ELSE 0
outside(buf, i) == ~(i >= 0 /\ i < Len(buf))

\* for (k = 0; k < length; ++k) out.push_back(out[start + k])
RECURSIVE copyMatch(_, _, _, _)
copyMatch(t, start, k, length) ==
  IF k >= length THEN t
  ELSE copyMatch([t EXCEPT !.out = Append(t.out, readAt(t.out, start + k)),
                           !.oob = t.oob \/ outside(t.out, start + k)],
                 start, k + 1, length)

\* Seeded fault: the record check off by one, accepting two remaining bytes
recordMissingOffByOne(pos, n) == pos + 2 > n

\* Seeded fault: the reference check without the bound on the offset
invalidReferenceNoBound(off, length, outSize) == off = 0 \/ length = 0

\* the check that a whole 3-byte match record is present
recordMissing(pos, n) == pos + 2 >= n

\* the check of a match record against the output decoded so far
invalidReference(off, length, outSize) ==
  off = 0 \/ length = 0 \/ off > outSize

\* for (bit = 0; bit < 8 && pos < n; ++bit): the tokens of one group
RECURSIVE decompressGroup(_, _, _, _)
decompressGroup(in, flags, bit, t) ==
  LET n == Len(in)
      isMatch == (flags \div (2 ^ bit)) % 2 = 1
      pos == t.pos
  IN IF bit >= 8 THEN t
     ELSE IF pos >= n THEN [t EXCEPT !.matchAtEnd = isMatch]
     ELSE IF isMatch
     THEN IF recordMissing(pos, n)
          THEN [t EXCEPT !.ok = FALSE, !.shortMatch = TRUE]
          ELSE LET off == readAt(in, pos) + readAt(in, pos + 1) * 256
                   length == readAt(in, pos + 2)
                   t1 == [t EXCEPT !.pos = pos + 3,
                            !.oob = t.oob \/ outside(in, pos)
                                    \/ outside(in, pos + 1)
                                    \/ outside(in, pos + 2),
                            !.records = Append(t.records,
                               [off |-> off, length |-> length,
                                outSize |-> Len(t.out)])]
               IN IF invalidReference(off, length, Len(t.out))
                  THEN [t1 EXCEPT !.ok = FALSE]
                  ELSE decompressGroup(in, flags, bit + 1,
                         copyMatch(t1, Len(t.out) - off, 0, length))
     ELSE decompressGroup(in, flags, bit + 1,
            [t EXCEPT !.out = Append(t.out, readAt(in, pos)),
                      !.oob = t.oob \/ outside(in, pos),
                      !.pos = pos + 1])

\* while (pos < n): read the flag byte, then the group
RECURSIVE decompressLoop(_, _)
decompressLoop(in, t) ==
  IF t.pos < Len(in) /\ t.ok
  THEN decompressLoop(in,
         decompressGroup(in, readAt(in, t.pos), 0,
                         [t EXCEPT !.pos = t.pos + 1,
                                   !.oob = t.oob \/ outside(in, t.pos)]))
  ELSE t

lzssDecompressBuffer(in) == decompressLoop(in, NoTrace)

\* The whole calls: the Result and the output file afterwards
lzssCompressFile(inF, old, canOpen) ==
  IF ~inF.exists THEN [r |-> Result(0, 0, -1), out |-> old, opened |-> FALSE]
  ELSE LET output == lzssCompressBuffer(contents(inF), Params)
       IN IF ~canOpen THEN [r |-> Result(fileSize(inF), 0, -2), out |-> old, opened |-> FALSE]
          ELSE [r |-> Result(fileSize(inF), Len(output), 0),
                opened |-> TRUE, out |-> File(output)]

\* Seeded fault: a decoder that opens (truncates) its output file before it
\* decodes the input
lzssDecompressFileOpensFirst(cf, old, canOpen) ==
  IF ~cf.exists THEN [r |-> Result(0, 0, -1), out |-> old, opened |-> FALSE, t |-> NoTrace]
  ELSE LET t == lzssDecompressBuffer(cf.data)
       IN IF ~canOpen
          THEN [r |-> Result(Len(cf.data), 0, -2), out |-> old, opened |-> FALSE, t |-> t]
          ELSE IF ~t.ok
          THEN [r |-> Result(Len(cf.data), 0, -3), out |-> File(<<>>), opened |-> TRUE, t |-> t]
          ELSE [r |-> Result(Len(cf.data), Len(t.out), 0),
                opened |-> TRUE, out |-> File(t.out), t |-> t]

lzssDecompressFile(cf, old, canOpen) ==
  IF ~cf.exists THEN [r |-> Result(0, 0, -1), out |-> old, opened |-> FALSE, t |-> NoTrace]
  ELSE LET t == lzssDecompressBuffer(cf.data)
       IN IF ~t.ok THEN [r |-> Result(Len(cf.data), 0, -3), out |-> old, opened |-> FALSE, t |-> t]
          ELSE IF ~canOpen
          THEN [r |-> Result(Len(cf.data), 0, -2), out |-> old, opened |-> FALSE, t |-> t]
          ELSE [r |-> Result(Len(cf.data), Len(t.out), 0),
                opened |-> TRUE, out |-> File(t.out), t |-> t]

\* ---------------------------------------------------------------------------
\* The DCT codec.  The code works on float and double values; the model
\* keeps them as integers in fixed point: a sample in units of 1/8, a DCT
\* coefficient in units of 2^-19, a reconstructed sample in units of 2^-16.
\* Where the fixed-point value lies within the model's error of a rounding
\* tie, the rounded value is either neighbour.
\* ---------------------------------------------------------------------------
DCT1 == <<68, 67, 84, 49>>
block == 8
headerBytes == 9
blockBytes == 128

kLumaQuant ==
  << 16, 11, 10, 16,  24,  40,  51,  61,
     12, 12, 14, 19,  26,  58,  60,  55,
     14, 13, 16, 24,  40,  57,  69,  56,
     14, 17, 22, 29,  51,  87,  80,  62,
     18, 22, 37, 56,  68, 109, 103,  77,
     24, 35, 55, 64,  81, 104, 113,  92,
     49, 64, 78, 87, 103, 121, 120, 101,
     72, 92, 95, 98, 112, 100, 103,  99 >>

\* std::cos(k * pi / 16.0) for k = 0..31, in units of 2^-15
cosTable ==
  <<  32768,  32138,  30274,  27246,  23170,  18205,  12540,   6393,
          0,  -6393, -12540, -18205, -23170, -27246, -30274, -32138,
     -32768, -32138, -30274, -27246, -23170, -18205, -12540,  -6393,
          0,   6393,  12540,  18205,  23170,  27246,  30274,  32138 >>

\* std::cos(((2.0 * n + 1.0) * k * pi) / 16.0), in units of 2^-15
cosine(n, k) == cosTable[(((2 * n + 1) * k) % 32) + 1]

\* alpha(u) * alpha(v), in units of 2^-16: alpha(0) is 1 / sqrt(2)
alpha(u, v) ==
  IF u = 0 /\ v = 0 THEN 32768 ELSE IF u = 0 \/ v = 0 THEN 46341 ELSE 65536

\* cu * cv * cosx * cosy for sample (x, y) and frequency (u, v), in units of
\* 2^-14; index ((y * 8 + x) * 8 + v) * 8 + u
kernelTable ==
  [n \in 0..4095 |->
     LET u == n % 8
         v == (n \div 8) % 8
         x == (n \div 64) % 8
         y == n \div 512
         cc == (cosine(x, u) * cosine(y, v) + 32768) \div 65536
     IN (cc * alpha(u, v) + 32768) \div 65536]
kernel(x, y, u, v) == kernelTable[((y * 8 + x) * 8 + v) * 8 + u]

\* sum += ... over the 64 entries of f
RECURSIVE sumTo(_, _)
sumTo(f, n) == IF n < 0 THEN 0 ELSE f[n] + sumTo(f, n - 1)

\* the two integers a value may round to: v is in units of 1 / unit and lies
\* within unit / band of the exact value; std::round rounds halves away from
\* zero
roundNear(v, unit, band) ==
  LET mag == IF v < 0 THEN 0 - v ELSE v
      sign == IF v < 0 THEN 0 - 1 ELSE 1
      half == unit \div 2
      eps == unit \div band
  IN [a |-> sign * ((mag + half - eps) \div unit),
      b |-> sign * ((mag + half + eps) \div unit)]

\* error of a quantised coefficient and of a reconstructed sample, as a
\* fraction of one rounding step
coeffBand == 64
sampleBand == 128

\* one std::int16_t of blockQ, as the little-endian target stores it
readInt16(is, pos) ==
  LET u == is[pos + 1] + 256 * is[pos + 2]
  IN IF u >= 32768 THEN u - 65536 ELSE u

\* static_cast<std::uint16_t>((d + block - 1) / block * block)
paddedSize(d) == ToU16(((d + block - 1) \div block) * block)

\* ---------------------------------------------------------------------------
\* dctDecompressFile
\* ---------------------------------------------------------------------------
\* seeded fault: the coefficients are not scaled back by the quantisation table
dequantize8x8Unscaled(q) == [i \in 0..63 |-> q[i]]

dequantize8x8(q) == [i \in 0..63 |-> q[i] * kLumaQuant[i + 1]]

\* 0.25 * sum + 128.0 for each sample, in units of 2^-16; the terms of a zero
\* coefficient add nothing and are left out of the sum
RECURSIVE sumOver(_, _)
sumOver(f, S) ==
  IF S = {} THEN 0
  ELSE LET k == CHOOSE k \in S : TRUE IN f[k] + sumOver(f, S \ {k})
idct8x8(F) ==
  LET nonzero == {k \in 0..63 : F[k] # 0}
  IN [i \in 0..63 |->
        sumOver([k \in nonzero |->
                   F[k] * kernel(i % 8, i \div 8, k % 8, k \div 8)], nonzero)
        + 8388608]

\* in.read(blockQ, sizeof(blockQ)) for each block in raster order, until one
\* read fails; the spatial samples of the blocks read
RECURSIVE readBlocks(_, _, _, _, _)
readBlocks(is, pos, k, total, acc) ==
  IF k >= total THEN [ok |-> TRUE, blocks |-> acc]
  ELSE IF pos + blockBytes > Len(is) THEN [ok |-> FALSE, blocks |-> acc]
  ELSE readBlocks(is, pos + blockBytes, k + 1, total,
         Append(acc, idct8x8(dequantize8x8(
                       [i \in 0..63 |-> readInt16(is, pos + 2 * i)]))))

\* std::max(0.0f, std::min(255.0f, val)), then std::round to a uint8: the
\* values the sample may round to
clampPixel(val) ==
  roundNear(IF val < 0 THEN 0 ELSE IF val > 16711680 THEN 16711680 ELSE val,
            65536, sampleBand)

\* operator<< of an unsigned integer: its decimal digits in ASCII
RECURSIVE decimal(_)
decimal(v) ==
  IF v < 10 THEN <<48 + v>> ELSE Append(decimal(v \div 10), 48 + (v % 10))

\* "P5\n" width " " height "\n255\n"
pgmHeader(width, height) ==
  <<80, 53, 10>> \o decimal(width) \o <<32>> \o decimal(height)
    \o <<10, 50, 53, 53, 10>>

\* the cropped image: sample (x, y) of the padded image, clamped and rounded
croppedPixels(blocks, width, height, blocksX) ==
  [i \in 1..(width * height) |->
     LET x == (i - 1) % width
         y == (i - 1) \div width
     IN clampPixel(blocks[(y \div block) * blocksX + (x \div block) + 1]
                         [(y % block) * block + (x % block)])]

\* every way of taking one of its two values at each position of cands
roundings(cands) ==
  LET ties == {i \in DOMAIN cands : cands[i].a # cands[i].b}
  IN {[i \in DOMAIN cands |-> IF i \in S THEN cands[i].b ELSE cands[i].a] :
        S \in SUBSET ties}

\* The whole call: the set of its possible outcomes.  ub: the crop loop read
\* outside the padded buffer (undefined behaviour); the Result and file given
\* are then those of a run that goes on, with the width * height arbitrary
\* sample bytes left out.
dctDecompressFile(cf, old, canOpen) ==
  LET is == cf.data
      n == Len(is)
      fail(e) == {[r |-> Result(n, 0, e), out |-> old, opened |-> FALSE,
                   ub |-> FALSE]}
      width == readUint16(is, 4)
      height == readUint16(is, 6)
      paddedW == paddedSize(width.v)
      paddedH == paddedSize(height.v)
      blocksX == paddedW \div block
      blocksY == paddedH \div block
      coeffs == readBlocks(is, headerBytes, 0, blocksX * blocksY, <<>>)
      \* the largest index y * paddedW + x the crop loop reads, against the
      \* size of the padded buffer
      cropOutside == (height.v - 1) * paddedW + (width.v - 1) >= paddedW * paddedH
      header == pgmHeader(width.v, height.v)
      images == {header \o gray :
                   gray \in roundings(croppedPixels(coeffs.blocks, width.v,
                                                    height.v, blocksX))}
  IN IF ~cf.exists \/ n = 0
     THEN {[r |-> Result(0, 0, -1), out |-> old, opened |-> FALSE, ub |-> FALSE]}
     ELSE IF n < 4 \/ Prefix(is, 4) # DCT1 THEN fail(-4)
     ELSE IF ~width.ok \/ ~height.ok \/ width.v = 0 \/ height.v = 0 THEN fail(-4)
     ELSE IF n < headerBytes \/ is[headerBytes] # 1 THEN fail(-5)
     ELSE IF ~coeffs.ok THEN fail(-6)
     ELSE IF cropOutside
     THEN IF ~canOpen
          THEN {[r |-> Result(n, 0, -3), out |-> old, opened |-> FALSE,
                 ub |-> TRUE]}
          ELSE {[r |-> Result(n, Len(header) + width.v * height.v, 0),
                 opened |-> TRUE, out |-> File(header), ub |-> TRUE]}
     ELSE IF ~canOpen THEN fail(-3)
     ELSE {[r |-> Result(n, Len(image), 0), opened |-> TRUE,
            out |-> File(image), ub |-> FALSE] : image \in images}

\* ---------------------------------------------------------------------------
\* dctCompressFile
\* ---------------------------------------------------------------------------
\* std::isspace in the "C" locale
isSpace(b) == b \in {9, 10, 11, 12, 13, 32}
isDigit(b) == b >= 48 /\ b <= 57

\* operator>> skips leading whitespace
RECURSIVE skipSpace(_, _)
skipSpace(f, pos) ==
  IF pos < fileSize(f) /\ isSpace(byteAt(f, pos)) THEN skipSpace(f, pos + 1) ELSE pos

\* in >> magic: the characters up to the next whitespace or the end
RECURSIVE wordEnd(_, _)
wordEnd(f, pos) ==
  IF pos < fileSize(f) /\ ~isSpace(byteAt(f, pos)) THEN wordEnd(f, pos + 1) ELSE pos
readWord(f, pos) ==
  LET from == skipSpace(f, pos)
      to == wordEnd(f, from)
  IN [ok |-> to > from,
      word |-> [i \in 1..(to - from) |-> byteAt(f, from + i - 1)],
      pos |-> to]

\* in >> w for an int: an optional sign and decimal digits; a value that
\* does not fit an int sets failbit
RECURSIVE readDigits(_, _, _)
readDigits(f, pos, acc) ==
  IF pos < fileSize(f) /\ isDigit(byteAt(f, pos))
  THEN IF ~acc.ok \/ acc.v > 214748364
          \/ (acc.v = 214748364 /\ byteAt(f, pos) > 55)
       THEN readDigits(f, pos + 1, [acc EXCEPT !.ok = FALSE, !.some = TRUE])
       ELSE readDigits(f, pos + 1,
                       [ok |-> TRUE, some |-> TRUE,
                        v |-> acc.v * 10 + (byteAt(f, pos) - 48)])
  ELSE [ok |-> acc.ok /\ acc.some, v |-> acc.v, pos |-> pos]
isSign(f, pos) == pos < fileSize(f) /\ byteAt(f, pos) \in {43, 45}
signedInt(negative, digits) ==
  [ok |-> digits.ok,
   v |-> IF negative THEN 0 - digits.v ELSE digits.v,
   pos |-> digits.pos]
readSigned(f, from) ==
  signedInt(isSign(f, from) /\ byteAt(f, from) = 45,
            readDigits(f, IF isSign(f, from) THEN from + 1 ELSE from,
                       [ok |-> TRUE, some |-> FALSE, v |-> 0]))
readInt(f, pos) == readSigned(f, skipSpace(f, pos))

\* loadPpmP6: the dimensions as ints and the offset of the first sample.
\* in.get() takes one character after maxval, in.read the samples.
BadPpm == [ok |-> FALSE, w |-> 0, h |-> 0, at |-> 0]
ppmSamples(f, w, h, maxval) ==
  IF ~w.ok \/ ~h.ok \/ ~maxval.ok THEN BadPpm
  ELSE IF w.v <= 0 \/ h.v <= 0 \/ maxval.v <= 0 \/ maxval.v > 255 THEN BadPpm
  ELSE IF maxval.pos + 1 > fileSize(f)
          \/ ((fileSize(f) - (maxval.pos + 1)) \div 3) \div w.v < h.v
  THEN BadPpm
  ELSE [ok |-> TRUE, w |-> w.v, h |-> h.v, at |-> maxval.pos + 1]
ppmMaxval(f, w, h) == ppmSamples(f, w, h, readInt(f, h.pos))
ppmHeight(f, w) == ppmMaxval(f, w, readInt(f, w.pos))
ppmWidth(f, magic) ==
  IF magic.word # <<80, 54>> THEN BadPpm
  ELSE ppmHeight(f, readInt(f, magic.pos))
loadPpmP6(f) == ppmWidth(f, readWord(f, 0))

\* 0.299f * r + 0.587f * g + 0.114f * b, in units of 1/8
luma(r, g, b) == ((299 * r + 587 * g + 114 * b) * 8 + 500) \div 1000

\* rgbToGrayscale: grayOut[i] of the width * height samples
rgbToGrayscale(f, at, width, height) ==
  [i \in 0..(width * height - 1) |->
     luma(byteAt(f, at + 3 * i), byteAt(f, at + 3 * i + 1),
          byteAt(f, at + 3 * i + 2))]

\* padToBlockSize: sample (x, y) of the padded image, 0.0f outside the image
padToBlockSize(gray, width, height, x, y) ==
  IF x < width /\ y < height THEN gray[y * width + x] ELSE 0

\* dct8x8: 0.25 * cu * cv * sum of (in - 128.0) * cosx * cosy, in units of
\* 2^-19
dct8x8(in) ==
  [k \in 0..63 |->
     sumTo([j \in 0..63 |->
              (in[j] - 1024) * kernel(j % 8, j \div 8, k % 8, k \div 8)], 63)]

\* quantize8x8: std::round(in[i] / q) clamped to the int16 range; the values
\* each coefficient may round to
quantize8x8(in) ==
  [i \in 0..63 |->
     LET near == roundNear(in[i], kLumaQuant[i + 1] * 524288, coeffBand)
         clamp(v) == IF v < -32768 THEN -32768 ELSE IF v > 32767 THEN 32767 ELSE v
     IN [a |-> clamp(near.a), b |-> clamp(near.b)]]

\* seeded fault: one byte is written for each coefficient
blockDataNarrow(q) == [n \in 1..Len(q) |-> (q[n] + 65536) % 256]

\* the bytes of the quantised blocks, out.write(blockQ) block after block
blockData(q) ==
  [n \in 1..(2 * Len(q)) |->
     writeUint16((q[(n + 1) \div 2] + 65536) % 65536)[2 - (n % 2)]]

\* The whole call: the set of its possible outcomes.  ub: padToBlockSize
\* wrote outside the padded buffer (undefined behaviour); the Result and
\* file given are then those of a run that goes on.  The input path ends in
\* ".ppm".
encodeImage(inF, ppm, old, canOpen) ==
  LET n == fileSize(inF)
      fail(e) == {[r |-> Result(n, 0, e), out |-> old, opened |-> FALSE,
                   ub |-> FALSE]}
      width == ToU16(ppm.w)
      height == ToU16(ppm.h)
      gray == rgbToGrayscale(inF, ppm.at, width, height)
      paddedW == paddedSize(width)
      paddedH == paddedSize(height)
      padOutside == /\ width > 0
                    /\ height > 0
                    /\ (height - 1) * paddedW + (width - 1) >= paddedW * paddedH
      blocksX == paddedW \div block
      blocksY == paddedH \div block
      header == DCT1 \o writeUint16(width) \o writeUint16(height) \o <<1>>
      blockIn(bx, by) ==
        [j \in 0..63 |->
           padToBlockSize(gray, width, height,
                          ToU16(bx * block + (j % block)),
                          ToU16(by * block + (j \div block)))]
      blockQ == [b \in 0..(blocksX * blocksY - 1) |->
                   quantize8x8(dct8x8(blockIn(b % blocksX, b \div blocksX)))]
      cands == [j \in 1..(64 * blocksX * blocksY) |->
                  blockQ[(j - 1) \div 64][(j - 1) % 64]]
      files == {header \o blockData(q) : q \in roundings(cands)}
  IN IF ~inF.exists \/ n = 0
     THEN {[r |-> Result(0, 0, -1), out |-> old, opened |-> FALSE, ub |-> FALSE]}
     ELSE IF ~ppm.ok THEN fail(-2)
     ELSE IF padOutside
     THEN IF ~canOpen
          THEN {[r |-> Result(n, 0, -3), out |-> old, opened |-> FALSE,
                 ub |-> TRUE]}
          ELSE {[r |-> Result(n, Len(header), 0), opened |-> TRUE,
                 out |-> File(header), ub |-> TRUE]}
     ELSE IF ~canOpen THEN fail(-3)
     ELSE {[r |-> Result(n, Len(f), 0), opened |-> TRUE, out |-> File(f),
            ub |-> FALSE] : f \in files}
dctCompressFile(inF, old, canOpen) == encodeImage(inF, loadPpmP6(inF), old, canOpen)

\* ---------------------------------------------------------------------------
\* The files the model starts from
\* ---------------------------------------------------------------------------
\* input buffers of the entropy coder
HuffSymbols == {65, 66, 67}
\* A BB CCC DDDD ...: the k-th byte value fills positions k(k-1)/2 + 1 .. k(k+1)/2
skewSymbol(i) == 64 + (CHOOSE k \in 1..i : (k * (k - 1)) \div 2 < i /\ i <= (k * (k + 1)) \div 2)
HuffInputs ==
  SeqsUpTo(HuffSymbols, MaxHuffLen)
  \cup {[i \in 1..n |-> skewSymbol(i)] : n \in 0..MaxSkewLen}
  \cup {[i \in 1..n |-> 65] : n \in 0..MaxSkewLen}

\* one input buffer for every histogram over four byte values
HistSymbols == {65, 66, 67, 68}
RECURSIVE counted(_, _)
counted(counts, todo) ==
  IF todo = {} THEN <<>>
  ELSE LET sym == SetMin(todo)
       IN [i \in 1..counts[sym] |-> sym] \o counted(counts, todo \ {sym})
CountedInputs ==
  {counted(counts, HistSymbols) : counts \in [HistSymbols -> 0..MaxCount]}

\* .huff files that huffmanCompressFile did not write: a header with any
\* original size, declared symbol count and table, then any payload
HuffEntries == {<<sym>> \o writeUint32(f) : sym \in {65, 66}, f \in 0..2}
HuffTables == {<<>>} \cup HuffEntries \cup {a \o b : a \in HuffEntries, b \in HuffEntries}
HuffPayloads == SeqsUpTo({0, 255}, 2)
ForgedHuffWith(count) ==
  {HUF1 \o writeUint32(size) \o writeUint16(count) \o table \o payload :
     size \in 0..MaxHuffLen,
     table \in {t \in HuffTables : Len(t) <= 5 * count}, payload \in HuffPayloads}
ForgedHuffFiles ==
  UNION {ForgedHuffWith(count) : count \in 0..2}
  \cup {Prefix(HUF1 \o writeUint32(1) \o writeUint16(1), k) : k \in 0..10}
  \cup {<<72, 85, 70, 50>> \o writeUint32(0) \o writeUint16(0)}

\* input buffers of the dictionary coder: every short buffer, and long runs,
\* periodic buffers and buffers without any repeat
LzssSymbols == {65, 66, 67}
LzssInputs ==
  SeqsUpTo(LzssSymbols, MaxLzssLen)
  \cup {[i \in 1..n |-> 65] : n \in 0..MaxRunLen}
  \cup {[i \in 1..n |-> 65 + ((i + 1) % 2)] : n \in 0..MaxRunLen}
  \cup {[i \in 1..n |-> i] : n \in 0..MaxPlainLen}

\* buffers about as long as the dictionary window and longer: runs after a
\* short head, and buffers of period 3
LongHeads == {<<>>, <<66>>, <<66, 67>>}
WindowLens == (windowSize - 2)..(windowSize + MaxWindowExcess)
LongInputs ==
  {FilledFile(head, n - Len(head), 65) : head \in LongHeads, n \in WindowLens}
  \cup {File([i \in 1..(windowSize + k) |-> 65 + (i % 3)]) :
          k \in {MaxWindowExcess - 1, MaxWindowExcess}}

\* buffers in which a substring repeats at several distances, with equal and
\* with growing lengths: ABC1ABC2ABC3, ABC1ABCD2ABCD3, ABCD1ABC2ABCD
RepeatInputs ==
  {<<65, 66, 67, 1, 65, 66, 67, 2, 65, 66, 67, 3>>,
   <<65, 66, 67, 1, 65, 66, 67, 68, 2, 65, 66, 67, 68, 3>>,
   <<65, 66, 67, 68, 1, 65, 66, 67, 2, 65, 66, 67, 68>>}

\* token streams that lzssCompressBuffer did not write
StreamBytes == {0, 1, 2, 3, 65}
ForgedLzssFiles == SeqsUpTo(StreamBytes, MaxStreamLen)

\* .dct files: any header, then complete blocks whose only nonzero
\* coefficient is the DC one, then a cut block
DcValues == <<5, -70, 70, 0>>
dcBlock(q) ==
  writeUint16((q + 65536) % 65536) \o [i \in 1..(blockBytes - 2) |-> 0]
RECURSIVE dcBlocks(_, _)
dcBlocks(k, shift) ==
  IF k = 0 THEN <<>>
  ELSE dcBlocks(k - 1, shift) \o dcBlock(DcValues[((k + shift) % 4) + 1])
DctWidths == {0, 1, 8, 9, 17, 65528, 65529, 65535}
DctHeights == {0, 1, 8, 9, 65535}
DctTails == {0, 1, 64, 127}
DctFilesWith(w) ==
  {magic \o writeUint16(w) \o writeUint16(h) \o <<channels>>
     \o dcBlocks(k, shift) \o [i \in 1..tail |-> 0] :
     magic \in {DCT1, <<68, 67, 84, 50>>},
     h \in {x \in DctHeights : x <= 9 \/ w <= 17}, channels \in {1, 3},
     k \in 0..MaxBlocks, shift \in {0, 1}, tail \in DctTails}
DctFiles ==
  UNION {DctFilesWith(w) : w \in DctWidths}
  \cup {Prefix(DCT1 \o writeUint16(8) \o writeUint16(8) \o <<1>>, k) : k \in 0..8}

\* PPM images: "P6\n" w " " h "\n255\n", then the samples; sample (x, y) has
\* r = g = b = base + dx * x + dy * y
ppmHeader(w, h) ==
  <<80, 54, 10>> \o decimal(w) \o <<32>> \o decimal(h) \o <<10, 50, 53, 53, 10>>
gradient(w, h, base, dx, dy) ==
  ppmHeader(w, h)
    \o [i \in 1..(3 * w * h) |->
         base + dx * (((i - 1) \div 3) % w) + dy * (((i - 1) \div 3) \div w)]
\* the 16 x 16 gradients
Slopes == {<<0, 0>>, <<1, 0>>, <<0, 4>>, <<1, 4>>, <<0, 8>>, <<2, 2>>, <<0, 1>>}
Gradients == {gradient(16, 16, base, s[1], s[2]) : base \in {0, 16}, s \in Slopes}
\* images of other sizes, among them widths that do not fit 16 bits
SmallSizes == {<<1, 1>>, <<8, 8>>, <<9, 8>>, <<8, 9>>}
WideSizes == {<<65529, 1>>, <<65535, 1>>, <<65536, 1>>, <<65537, 1>>}
Images ==
  {File(b) : b \in Gradients}
  \cup {File(gradient(s[1], s[2], 100, 0, 0)) : s \in SmallSizes}
  \cup {FilledFile(ppmHeader(s[1], s[2]), 3 * s[1] * s[2], 100) : s \in WideSizes}
\* files that are no complete P6 image
BrokenImages ==
  {<<>>, <<80, 53, 10, 49, 32, 49, 10, 50, 53, 53, 10, 7>>,
   ppmHeader(1, 1), ppmHeader(1, 1) \o <<7, 7>>,
   <<80, 54, 10>> \o decimal(1) \o <<32, 48, 10, 50, 53, 53, 10, 7, 7, 7>>,
   <<80, 54, 10, 49, 32, 49, 10, 50, 53, 54, 10, 7, 7, 7>>}
PpmInputs == Images \cup {File(b) : b \in BrokenImages}

\* ---------------------------------------------------------------------------
\* State machine
\* ---------------------------------------------------------------------------
\* a codec entry point called directly
NoCall == [entry |-> "none", algo |-> 0, line |-> 0]
\* the channels hold <<>> until written, then <<v>> for the last value v;
\* no command handled
NoTlm == [LastAlgo |-> <<>>, LastRatio |-> <<>>, LastResultCode |-> <<>>]
NoCommand == [cmd |-> "none", algo |-> 0, path |-> "", events |-> <<>>,
              writes |-> <<>>, responses |-> <<>>, libCalls |-> 0]
\* a call of the library that does not come from a command handler
Library ==
  /\ handled' = NoCommand
  /\ UNCHANGED <<m_runtimeDefaultAlgo, tlm>>

InitCommon ==
  /\ outFile = NoFile
  /\ call = NoCall
  /\ m_runtimeDefaultAlgo = 0 \* COMP::Algo::HUFFMAN
  /\ tlm = NoTlm
  /\ handled = NoCommand
  /\ result = Result(0, 0, 0)
  /\ op = "none"
  /\ outcome = "returned"
  /\ encTree = NoTree
  /\ decTree = NoTree
  /\ liveNodes = 0
  /\ doubleFrees = 0
  /\ trace = NoTrace
  /\ outOk = TRUE
  /\ opened = FALSE

\* either an input file and no compressed file yet, or a compressed file of
\* unknown origin and no input
InitFiles(inputs, forged) ==
  \/ /\ inFile \in {File(b) : b \in inputs}
     /\ compFile = NoFile
     /\ origin = "none"
  \/ /\ inFile = NoFile
     /\ compFile \in {File(b) : b \in forged} \cup {NoFile}
     /\ origin = "forged"

\* nodes allocated by a call and not deleted by it; deletes of a deleted node
leaked(c) == Len(c.tree.nodes) - Cardinality(SeqToSet(c.freed))
refreed(c) == Len(c.freed) - Cardinality(SeqToSet(c.freed))

HuffmanCompressFileCall ==
  \E canOpen \in BOOLEAN :
    \E c \in {huffmanCompressFile(inFile, compFile, canOpen)} :
       /\ compFile' = c.out
       /\ origin' = IF c.opened THEN "codec" ELSE origin
       /\ result' = c.r
       /\ op' = "huffmanCompressFile"
       /\ outcome' = "returned"
       /\ encTree' = c.tree
       /\ liveNodes' = liveNodes + leaked(c)
       /\ doubleFrees' = doubleFrees + refreed(c)
       /\ outOk' = canOpen
       /\ opened' = c.opened
       /\ decTree' = NoTree
       /\ trace' = NoTrace
       /\ UNCHANGED <<inFile, outFile>>

HuffmanDecompressFileCall ==
  \E canOpen \in BOOLEAN :
    \E c \in {huffmanDecompressFile(compFile, outFile, canOpen)} :
       /\ outFile' = c.out
       /\ result' = c.r
       /\ op' = "huffmanDecompressFile"
       /\ outcome' = "returned"
       /\ decTree' = c.tree
       /\ liveNodes' = liveNodes + leaked(c)
       /\ doubleFrees' = doubleFrees + refreed(c)
       /\ outOk' = canOpen
       /\ opened' = c.opened
       /\ trace' = NoTrace
       /\ UNCHANGED <<inFile, compFile, origin, encTree>>

LzssCompressFileCall ==
  \E canOpen \in BOOLEAN :
    \E c \in {lzssCompressFile(inFile, compFile, canOpen)} :
       /\ compFile' = c.out
       /\ origin' = IF c.opened THEN "codec" ELSE origin
       /\ result' = c.r
       /\ op' = "lzssCompressFile"
       /\ outcome' = "returned"
       /\ outOk' = canOpen
       /\ opened' = c.opened
       /\ decTree' = NoTree
       /\ trace' = NoTrace
       /\ UNCHANGED <<inFile, outFile, encTree, liveNodes, doubleFrees>>

LzssDecompressFileCall ==
  \E canOpen \in BOOLEAN :
    \E c \in {lzssDecompressFile(compFile, outFile, canOpen)} :
       /\ outFile' = c.out
       /\ result' = c.r
       /\ op' = "lzssDecompressFile"
       /\ outcome' = "returned"
       /\ trace' = c.t
       /\ outOk' = canOpen
       /\ opened' = c.opened
       /\ decTree' = NoTree
       /\ UNCHANGED <<inFile, compFile, origin, encTree, liveNodes, doubleFrees>>

\* After undefined behaviour the call either dies or goes on.
DctCompressFileCall ==
  \E canOpen \in BOOLEAN, dies \in BOOLEAN :
    \E c \in dctCompressFile(inFile, compFile, canOpen) :
       /\ (dies => c.ub)
       /\ compFile' = IF dies THEN compFile ELSE c.out
       /\ origin' = IF ~dies /\ c.opened THEN "codec" ELSE origin
       /\ result' = IF dies THEN result ELSE c.r
       /\ op' = "dctCompressFile"
       /\ outcome' = IF dies THEN "crashed"
                     ELSE IF c.ub THEN "indeterminate" ELSE "returned"
       /\ outOk' = canOpen
       /\ opened' = IF dies THEN FALSE ELSE c.opened
       /\ decTree' = NoTree
       /\ trace' = NoTrace
       /\ UNCHANGED <<inFile, outFile, encTree, liveNodes, doubleFrees>>

\* After undefined behaviour the call either dies or goes on with arbitrary
\* sample values.
DctDecompressFileCall ==
  \E canOpen \in BOOLEAN, dies \in BOOLEAN :
    \E c \in dctDecompressFile(compFile, outFile, canOpen) :
       /\ (dies => c.ub)
       /\ outFile' = IF dies THEN outFile ELSE c.out
       /\ result' = IF dies THEN result ELSE c.r
       /\ op' = "dctDecompressFile"
       /\ outcome' = IF dies THEN "crashed"
                     ELSE IF c.ub THEN "indeterminate" ELSE "returned"
       /\ outOk' = canOpen
       /\ opened' = IF dies THEN FALSE ELSE c.opened
       /\ UNCHANGED <<inFile, compFile, origin, encTree, decTree, liveNodes,
                      doubleFrees, trace>>

\* The entry points called directly.
HuffmanCompressFile == HuffmanCompressFileCall /\ call' = NoCall /\ Library
HuffmanDecompressFile == HuffmanDecompressFileCall /\ call' = NoCall /\ Library
LzssCompressFile == LzssCompressFileCall /\ call' = NoCall /\ Library
LzssDecompressFile == LzssDecompressFileCall /\ call' = NoCall /\ Library
DctCompressFile == DctCompressFileCall /\ call' = NoCall /\ Library
DctDecompressFile == DctDecompressFileCall /\ call' = NoCall /\ Library

\* enum class Algorithm : std::uint8_t
HUFFMAN == 0
LZSS == 1
DCT == 2
\* the values an Algorithm argument may hold
Selectors == {HUFFMAN, LZSS, DCT, 3, 255}

\* Seeded fault: the default returning the error code without its sign
ReturnErrorUnsigned(e) ==
  /\ result' = Result(0, 0, 0 - e)
  /\ op' = "none"
  /\ outcome' = "returned"
  /\ opened' = FALSE
  /\ decTree' = NoTree
  /\ trace' = NoTrace
  /\ UNCHANGED <<inFile, compFile, outFile, origin, encTree, liveNodes,
                 doubleFrees, outOk>>
\* default: Result r{}; r.error = e; return r; no codec runs, no file is
\* opened
ReturnError(e) ==
  /\ result' = Result(0, 0, e)
  /\ op' = "none"
  /\ outcome' = "returned"
  /\ opened' = FALSE
  /\ decTree' = NoTree
  /\ trace' = NoTrace
  /\ UNCHANGED <<inFile, compFile, outFile, origin, encTree, liveNodes,
                 doubleFrees, outOk>>

\* compressFile: both definitions in the source are the same switch
compressFile(algo) ==
  IF algo = HUFFMAN THEN HuffmanCompressFileCall
  ELSE IF algo = LZSS THEN LzssCompressFileCall
  ELSE IF algo = DCT THEN DctCompressFileCall
  ELSE ReturnError(-99)

\* decompressFile: the source defines it twice, at line 26 (no DCT decoder
\* yet) and at line 82; a build holds one of the two
decompressFile(algo, line) ==
  IF algo = HUFFMAN THEN HuffmanDecompressFileCall
  ELSE IF algo = LZSS THEN LzssDecompressFileCall
  ELSE IF algo = DCT
  THEN IF line = 26 THEN ReturnError(-10) ELSE DctDecompressFileCall
  ELSE ReturnError(-99)

CompressFile ==
  \E algo \in Selectors :
    /\ compressFile(algo)
    /\ call' = [entry |-> "compressFile", algo |-> algo, line |-> 66]
    /\ Library

DecompressFile ==
  \E algo \in Selectors, line \in {26, 82} :
    /\ decompressFile(algo, line)
    /\ call' = [entry |-> "decompressFile", algo |-> algo, line |-> line]
    /\ Library

\* compressFolder: both definitions in the source are the same stub
compressFolder(algo) == ReturnError(-1)

CompressFolder ==
  \E algo \in Selectors :
    /\ compressFolder(algo)
    /\ call' = [entry |-> "compressFolder", algo |-> algo, line |-> 99]
    /\ Library

\* ---------------------------------------------------------------------------
\* CompEngine, the command front end.  A command carries an algorithm and a
\* path; the path of COMPRESS_FILE names the input file, that of
\* DECOMPRESS_FILE the compressed file or is empty.
\* ---------------------------------------------------------------------------
\* static_cast<U32>(v): the value modulo 2^32, as its two 16-bit halves
ToU32(v) == [hi |-> (v \div 65536) % 65536, lo |-> v % 65536]

algoIsValid(algo) == algo \in {HUFFMAN, LZSS, DCT}

\* what doFileCompression and doFolderCompression return for the Result r
doFileCompression(r) == IF r.error = 0 THEN ToU32(0) ELSE ToU32(0 - r.error)
doFolderCompression(r) == IF r.error = 0 THEN ToU32(0) ELSE ToU32(0 - r.error)
\* what doFileDecompression returns for the Result r
doFileDecompression(r) == ToU32(r.error)

\* the F32 quotient bytesOut / bytesIn, kept as the fraction; 0.0F as 0 / 1
ratio(bytesIn, bytesOut) ==
  IF bytesIn > 0 THEN [num |-> bytesOut, den |-> bytesIn]
  ELSE [num |-> 0, den |-> 1]

\* the handler answers without running anything
Reject(cmd, algo, path, events, response) ==
  /\ handled' = [cmd |-> cmd, algo |-> algo, path |-> path, events |-> events,
                 writes |-> <<>>, responses |-> <<response>>, libCalls |-> 0]
  /\ UNCHANGED <<inFile, compFile, outFile, result, op, outcome, encTree,
                 decTree, liveNodes, doubleFrees, trace, origin, outOk, opened,
                 call, m_runtimeDefaultAlgo, tlm>>

\* the handler after the library call returned code: the success or the
\* failure branch; a call that died sends nothing
Report(cmd, algo, path, kind, code) ==
  /\ UNCHANGED m_runtimeDefaultAlgo
  /\ IF outcome' = "crashed"
     THEN /\ handled' = [cmd |-> cmd, algo |-> algo, path |-> path,
                         events |-> <<[event |-> kind \o "Requested", algo |-> algo]>>,
                         writes |-> <<>>, responses |-> <<>>, libCalls |-> 1]
          /\ UNCHANGED tlm
     ELSE IF code = ToU32(0)
     THEN /\ handled' = [cmd |-> cmd, algo |-> algo, path |-> path,
                         events |-> <<[event |-> kind \o "Requested", algo |-> algo],
                                     [event |-> kind \o "Succeeded",
                                      bytesIn |-> result'.bytesIn,
                                      bytesOut |-> result'.bytesOut]>>,
                         writes |-> <<"LastAlgo", "LastRatio", "LastResultCode">>,
                         responses |-> <<"OK">>, libCalls |-> 1]
          /\ tlm' = [LastAlgo |-> <<algo>>,
                     LastRatio |-> <<ratio(result'.bytesIn, result'.bytesOut)>>,
                     LastResultCode |-> <<ToU32(0)>>]
     ELSE /\ handled' = [cmd |-> cmd, algo |-> algo, path |-> path,
                         events |-> <<[event |-> kind \o "Requested", algo |-> algo],
                                     [event |-> kind \o "Failed", code |-> code]>>,
                         writes |-> <<"LastAlgo", "LastRatio", "LastResultCode">>,
                         responses |-> <<"EXECUTION_ERROR">>, libCalls |-> 1]
          /\ tlm' = [LastAlgo |-> <<algo>>, LastRatio |-> <<ratio(0, 0)>>,
                     LastResultCode |-> <<code>>]

InvalidAlgorithm(algo) == <<[event |-> "InvalidAlgorithm", algo |-> algo]>>

COMPRESS_FILE_cmdHandler ==
  \E algo \in Selectors :
    IF ~algoIsValid(algo)
    THEN Reject("COMPRESS_FILE", algo, "in", InvalidAlgorithm(algo), "FORMAT_ERROR")
    ELSE /\ compressFile(algo)
         /\ call' = [entry |-> "compressFile", algo |-> algo, line |-> 66]
         /\ Report("COMPRESS_FILE", algo, "in", "Compression",
                   doFileCompression(result'))

COMPRESS_FOLDER_cmdHandler ==
  \E algo \in Selectors :
    IF ~algoIsValid(algo)
    THEN Reject("COMPRESS_FOLDER", algo, "folder", InvalidAlgorithm(algo),
                "FORMAT_ERROR")
    ELSE /\ compressFolder(algo)
         /\ call' = [entry |-> "compressFolder", algo |-> algo, line |-> 99]
         /\ Report("COMPRESS_FOLDER", algo, "folder", "Compression",
                   doFolderCompression(result'))

DECOMPRESS_FILE_cmdHandler ==
  \E algo \in Selectors, path \in {"", "comp"}, line \in {26, 82} :
    IF ~algoIsValid(algo)
    THEN Reject("DECOMPRESS_FILE", algo, path, InvalidAlgorithm(algo),
                "FORMAT_ERROR")
    ELSE IF path = ""
    THEN Reject("DECOMPRESS_FILE", algo, path, <<>>, "FORMAT_ERROR")
    ELSE /\ decompressFile(algo, line)
         /\ call' = [entry |-> "decompressFile", algo |-> algo, line |-> line]
         /\ Report("DECOMPRESS_FILE", algo, path, "Decompression",
                   doFileDecompression(result'))

SET_DEFAULT_ALGO_cmdHandler ==
  \E algo \in Selectors :
    IF ~algoIsValid(algo)
    THEN Reject("SET_DEFAULT_ALGO", algo, "", InvalidAlgorithm(algo),
                "INVALID_OPCODE")
    ELSE /\ m_runtimeDefaultAlgo' = algo
         /\ tlm' = [tlm EXCEPT !.LastAlgo = <<algo>>]
         /\ handled' = [cmd |-> "SET_DEFAULT_ALGO", algo |-> algo, path |-> "",
                        events |-> <<>>, writes |-> <<"LastAlgo">>,
                        responses |-> <<"OK">>, libCalls |-> 0]
         /\ UNCHANGED <<inFile, compFile, outFile, result, op, outcome,
                        encTree, decTree, liveNodes, doubleFrees, trace,
                        origin, outOk, opened, call>>

PING_cmdHandler == Reject("PING", 0, "", <<>>, "OK")

\* The environment cuts the compressed file short.
TruncateFile ==
  /\ call' = NoCall
  /\ Library
  /\ compFile.exists
  /\ origin = "codec"
  /\ \E k \in 0..(Len(compFile.data) - 1) :
       compFile' = File(Prefix(compFile.data, k))
  /\ origin' = "prefix"
  /\ op' = "truncate"
  /\ decTree' = NoTree
  /\ trace' = NoTrace
  /\ UNCHANGED <<inFile, outFile, result, outcome, encTree, liveNodes,
                 doubleFrees, outOk, opened>>

InitHuffman == InitCommon /\ InitFiles(HuffInputs, ForgedHuffFiles)
NextHuffman == HuffmanCompressFile \/ HuffmanDecompressFile \/ TruncateFile
SpecHuffman == InitHuffman /\ [][NextHuffman]_vars

\* the entropy coder over every histogram
InitTree ==
  /\ InitCommon
  /\ inFile \in {File(b) : b \in CountedInputs}
  /\ compFile = NoFile
  /\ origin = "none"
NextTree == HuffmanCompressFile \/ HuffmanDecompressFile
SpecTree == InitTree /\ [][NextTree]_vars

InitLzss == InitCommon /\ InitFiles(LzssInputs, ForgedLzssFiles)
NextLzss == LzssCompressFile \/ LzssDecompressFile \/ TruncateFile
SpecLzss == InitLzss /\ [][NextLzss]_vars

\* the dictionary coder on short buffers and on buffers longer than the window
InitWindow ==
  /\ InitCommon
  /\ inFile \in {File(b) : b \in LzssInputs \cup RepeatInputs} \cup LongInputs
  /\ compFile = NoFile
  /\ origin = "none"
NextWindow == LzssCompressFile \/ LzssDecompressFile
SpecWindow == InitWindow /\ [][NextWindow]_vars

InitDct ==
  /\ InitCommon
  /\ inFile = NoFile
  /\ compFile \in {File(b) : b \in DctFiles} \cup {NoFile}
  /\ origin = "forged"
NextDct == DctDecompressFile
SpecDct == InitDct /\ [][NextDct]_vars

\* the image codec over PPM images
InitImage ==
  /\ InitCommon
  /\ inFile \in PpmInputs \cup {NoFile}
  /\ compFile = NoFile
  /\ origin = "none"
NextImage == DctCompressFile \/ DctDecompressFile
SpecImage == InitImage /\ [][NextImage]_vars

\* every codec entry point on one set of files: any decoder may be handed
\* any file
MixedFiles ==
  ForgedHuffWith(1)
  \cup SeqsUpTo({0, 1, 65}, MaxStreamLen)
  \cup DctFilesWith(9) \cup DctFilesWith(65535)
  \cup {Prefix(HUF1 \o writeUint32(1) \o writeUint16(1), k) : k \in 0..10}
  \cup {Prefix(DCT1 \o writeUint16(8) \o writeUint16(8) \o <<1>>, k) : k \in 0..8}
\* a few input buffers for both lossless coders: short ones, a run and a
\* periodic buffer (both give LZSS matches)
MixedInputs ==
  SeqsUpTo({65, 66}, 2)
  \cup {<<65, 65, 65, 65, 65, 65>>, <<65, 66, 65, 66, 65, 66, 65>>}
InitCodecs == InitCommon /\ InitFiles(MixedInputs, MixedFiles)
NextCodecs ==
  \/ HuffmanCompressFile
  \/ HuffmanDecompressFile
  \/ LzssCompressFile
  \/ LzssDecompressFile
  \/ DctDecompressFile
  \/ TruncateFile
SpecCodecs == InitCodecs /\ [][NextCodecs]_vars

\* the dispatch functions, on the files of the lossless coders and the 1 x 1
\* image "P6\n1 1\n1\n111"
DispatchInputs ==
  {File(b) : b \in MixedInputs}
  \cup {File(<<80, 54, 10, 49, 32, 49, 10, 49, 10, 49, 49, 49>>)}
InitDispatch ==
  /\ InitCommon
  /\ \/ /\ inFile \in DispatchInputs
        /\ compFile = NoFile
        /\ origin = "none"
     \/ /\ inFile = NoFile
        /\ compFile \in {File(b) : b \in MixedFiles} \cup {NoFile}
        /\ origin = "forged"
NextDispatch == CompressFile \/ DecompressFile
SpecDispatch == InitDispatch /\ [][NextDispatch]_vars

\* the command handlers of CompEngine: an input file (none, empty, text, a
\* run) or a compressed file (none, empty, noise, the Huffman file of no
\* bytes, .dct files 8 and 65535 pixels wide with and without their block)
EngineInputs == {<<>>, <<65>>, <<65, 65, 65, 65, 65, 65>>}
EngineFiles ==
  {<<>>, <<65>>, HUF1 \o writeUint32(0) \o writeUint16(0)}
  \cup {DCT1 \o writeUint16(w) \o writeUint16(1) \o <<1>> \o dcBlocks(k, 0) :
          w \in {8, 65535}, k \in {0, 1}}
InitEngine == InitCommon /\ InitFiles(EngineInputs, EngineFiles)
\* the whole library: the six codec entry points and the three dispatch
\* functions, on the files above, two images (complete and cut), cut
\* Huffman files, short LZSS streams and .dct files of no width or three
\* channels
LibraryInputs ==
  EngineInputs
  \cup {<<80, 54, 10, 49, 32, 49, 10, 49, 10, 49, 49, 49>>, ppmHeader(1, 1)}
LibraryFiles ==
  EngineFiles
  \cup {DCT1 \o writeUint16(w) \o writeUint16(1) \o <<c>> \o dcBlocks(1, 0) :
          w \in {0, 8}, c \in {1, 3}}
  \cup {Prefix(HUF1 \o writeUint32(1) \o writeUint16(1), k) : k \in {4, 8, 10}}
  \cup SeqsUpTo({0, 65}, 3)
InitLibrary == InitCommon /\ InitFiles(LibraryInputs, LibraryFiles)
NextLibrary ==
  \/ HuffmanCompressFile \/ HuffmanDecompressFile
  \/ LzssCompressFile \/ LzssDecompressFile
  \/ DctCompressFile \/ DctDecompressFile
  \/ CompressFile \/ DecompressFile \/ CompressFolder
SpecLibrary == InitLibrary /\ [][NextLibrary]_vars

NextEngine ==
  \/ COMPRESS_FILE_cmdHandler \/ COMPRESS_FOLDER_cmdHandler
  \/ DECOMPRESS_FILE_cmdHandler \/ SET_DEFAULT_ALGO_cmdHandler
  \/ PING_cmdHandler
SpecEngine == InitEngine /\ [][NextEngine]_vars

\* ---------------------------------------------------------------------------
\* Properties
\* ---------------------------------------------------------------------------
\* the last call decoded the file exactly as a compress call wrote it for
\* the input file, and could open its output
DecodedCodecFile(name) == op = name /\ origin = "codec" /\ outOk

\* C1: Huffman round trip.  Decoding the file huffmanCompressFile wrote for
\* a buffer B (empty, one repeated byte, or several byte values) succeeds
\* with error 0 and the output file holds exactly B.
HuffmanRoundTrip ==
  DecodedCodecFile("huffmanDecompressFile") =>
    /\ result.error = 0
    /\ outFile = File(inFile.data)
    /\ result.bytesOut = Len(inFile.data)

\* a round trip of a buffer with several distinct byte values
HuffmanRoundTripWitness ==
  /\ DecodedCodecFile("huffmanDecompressFile")
  /\ Cardinality(SeqToSet(inFile.data)) >= 2
  /\ outFile = File(inFile.data)

\* C2: LZSS round trip.  Decoding the stream lzssCompressBuffer wrote for a
\* buffer B (empty, a run of one byte, matches that overlap their own
\* output) succeeds and yields exactly B.
LzssRoundTrip ==
  DecodedCodecFile("lzssDecompressFile") =>
    /\ trace.ok
    /\ trace.out = inFile.data
    /\ result.error = 0
    /\ outFile = File(inFile.data)

\* a round trip through a match that is longer than its offset
LzssRoundTripWitness ==
  /\ DecodedCodecFile("lzssDecompressFile")
  /\ \E i \in 1..Len(trace.records) : trace.records[i].length > trace.records[i].off
  /\ outFile = File(inFile.data)

\* C3: header self-sufficiency.  For a non-empty input, the tree the decoder
\* rebuilds from the header's (symbol, frequency) pairs is the tree the
\* encoder built from the input's histogram: same nodes, same children in
\* the same order, so the same code for every symbol.
HeaderRebuildsTree ==
  (op = "huffmanDecompressFile" /\ origin = "codec" /\ inFile.data # <<>>) =>
    /\ decTree.root # nullptr
    /\ decTree = encTree
    /\ buildCodeTable(decTree.nodes, decTree.root, <<>>, NoCodes)
         = buildCodeTable(encTree.nodes, encTree.root, <<>>, NoCodes)

\* the tree rebuilt for an input whose byte values have different counts
HeaderRebuildsTreeWitness ==
  /\ op = "huffmanDecompressFile"
  /\ origin = "codec"
  /\ Len(decTree.nodes) >= 3
  /\ \E i, j \in 1..Len(decTree.nodes) :
       /\ isLeaf(decTree.nodes[i]) /\ isLeaf(decTree.nodes[j])
       /\ decTree.nodes[i].freq # decTree.nodes[j].freq
  /\ decTree = encTree

\* C4: prefix-tree release.  At every return of huffmanCompressFile and
\* huffmanDecompressFile, on success and on every error return, each node
\* buildTree allocated in the call was deleted exactly once: no node is live
\* after any sequence of calls.
TreeReleased == liveNodes = 0 /\ doubleFrees = 0

\* an error return after the tree was built: the bitstream ran out
TreeReleasedWitness ==
  /\ op = "huffmanDecompressFile"
  /\ result.error = -3
  /\ Len(decTree.nodes) >= 3
  /\ liveNodes = 0

\* the fields of a .huff file whose header is complete
huffOrigSize(is) == readUint32(is, 4).v
huffTable(is) == readFreqs(is, 10, 0, readUint16(is, 8).v, NoFreqs)
huffWellFormed(is) ==
  /\ Len(is) >= 10
  /\ Prefix(is, 4) = HUF1
  /\ huffTable(is).ok
  /\ Present(huffTable(is).freqs) # {}

\* the fewest bits any symbol of the header's code takes
huffMinCodeBits(is) ==
  LET tree == buildTree(huffTable(is).freqs)
      codes == buildCodeTable(tree.nodes, tree.root, <<>>, NoCodes)
  IN SetMin({Len(codes[sym]) : sym \in Present(huffTable(is).freqs)})

\* C5: bitstream exhaustion is a decode failure.  For a file with a
\* well-formed header and originalSize > 0 whose payload holds fewer bits
\* than originalSize symbols take (an empty payload and a one-symbol header
\* included), huffmanDecompressFile returns a nonzero error.
HuffmanExhaustionFails ==
  ( /\ op = "huffmanDecompressFile"
    /\ compFile.exists
    /\ huffWellFormed(compFile.data)
    /\ huffOrigSize(compFile.data) > 0
    /\ 8 * (Len(compFile.data) - huffTable(compFile.data).pos)
         < huffOrigSize(compFile.data) * huffMinCodeBits(compFile.data) )
  => result.error # 0

\* C6: LZSS truncation safety.  For a non-empty buffer B and a proper prefix
\* P of lzssCompressBuffer(B), lzssDecompressBuffer(P) never returns success
\* with an output different from B.
LzssTruncationFails ==
  (op = "lzssDecompressFile" /\ origin = "prefix" /\ inFile.data # <<>>) =>
    ~(trace.ok /\ trace.out # inFile.data)

\* C7: LZSS flag-bit truncation.  When a flag bit equal to 1 is reached
\* while fewer than 3 bytes remain (also when none remain after the flag
\* byte), lzssDecompressBuffer returns failure and lzssDecompressFile -3.
LzssShortMatchFails ==
  ( /\ op = "lzssDecompressFile"
    /\ compFile.exists
    /\ (trace.shortMatch \/ trace.matchAtEnd) )
  => (~trace.ok /\ result.error = -3)

\* a match record that must be refused, by the output length before it
BadRecord(rec) == rec.off = 0 \/ rec.length = 0 \/ rec.off > rec.outSize

\* C8: LZSS corrupt back-references.  When the decoder reads a complete
\* match record whose offset is 0, whose length is 0 or whose offset exceeds
\* the bytes decoded so far, lzssDecompressBuffer fails at that record,
\* copying nothing for it, and lzssDecompressFile returns -3.
LzssBadReferenceFails ==
  (op = "lzssDecompressFile" /\ compFile.exists) =>
    \A i \in 1..Len(trace.records) :
      BadRecord(trace.records[i]) =>
        /\ ~trace.ok
        /\ i = Len(trace.records)
        /\ Len(trace.out) = trace.records[i].outSize
        /\ result.error = -3
        /\ ~opened

\* a record that reaches back before the start of the output
LzssBadReferenceWitness ==
  /\ op = "lzssDecompressFile"
  /\ \E i \in 1..Len(trace.records) :
       /\ trace.records[i].off > trace.records[i].outSize
       /\ trace.records[i].length > 0
       /\ trace.records[i].outSize > 0
  /\ result.error = -3

\* C9: LZSS decoder memory safety.  For every input, valid, truncated or
\* arbitrary, each read of the input is at an index below its length and
\* each read out[start + k] of a match copy is below the current output
\* length, overlapping copies (length > offset) included.
LzssReadsInBounds == op = "lzssDecompressFile" => ~trace.oob

\* an overlapping copy read from an arbitrary stream
LzssReadsInBoundsWitness ==
  /\ op = "lzssDecompressFile"
  /\ origin = "forged"
  /\ \E i \in 1..Len(trace.records) :
       /\ ~BadRecord(trace.records[i])
       /\ trace.records[i].length > trace.records[i].off
  /\ ~trace.oob

\* the fields of a .dct file whose header is complete
dctWidth(is) == readUint16(is, 4).v
dctHeight(is) == readUint16(is, 6).v
dctHeaderValid(is) ==
  /\ Len(is) >= headerBytes
  /\ Prefix(is, 4) = DCT1
  /\ dctWidth(is) > 0
  /\ dctHeight(is) > 0
  /\ is[headerBytes] = 1
CeilDiv(a, b) == (a + b - 1) \div b

\* C10: truncated coefficient stream.  For a .dct file with a valid header
\* that holds fewer than ceil(width/8) * ceil(height/8) complete 128-byte
\* blocks, dctDecompressFile returns error -6 and writes no output.
DctTruncatedRejected ==
  ( /\ op = "dctDecompressFile"
    /\ compFile.exists
    /\ dctHeaderValid(compFile.data)
    /\ (Len(compFile.data) - headerBytes) \div blockBytes
         < CeilDiv(dctWidth(compFile.data), block)
           * CeilDiv(dctHeight(compFile.data), block) )
  => (outcome = "returned" /\ result.error = -6 /\ ~opened)

\* the three decoding entry points
Decoders == {"huffmanDecompressFile", "lzssDecompressFile", "dctDecompressFile"}

\* C11: no partial output on decode failure.  Whenever huffmanDecompressFile,
\* lzssDecompressFile or dctDecompressFile returns a nonzero error, the call
\* has not opened (created or truncated) its output file, and the file is as
\* it was before the call.
NoPartialOutput ==
  [][(op' \in Decoders /\ outcome' # "crashed" /\ result'.error # 0)
       => (~opened' /\ outFile' = outFile)]_vars

\* a failed decode that left the output of an earlier successful decode alone
NoPartialOutputWitness ==
  /\ op \in Decoders
  /\ result.error = -3
  /\ origin = "prefix"
  /\ outFile.exists
  /\ outFile.data # <<>>
  /\ ~opened

\* an input made of copies of one byte value
OneSymbol(data) == data # <<>> /\ Cardinality(SeqToSet(data)) = 1

\* C14: scenario 1, the empty input.  huffmanCompressFile on a 0-byte file
\* writes exactly the 10 bytes HUF1, originalSize 0, symbolCount 0 and reports
\* bytesOut = 10; huffmanDecompressFile on that file allocates no tree node,
\* writes an empty output and returns error 0 with bytesOut = 0.
HuffmanEmptyInput ==
  /\ (op = "huffmanCompressFile" /\ inFile.exists /\ inFile.data = <<>> /\ outOk) =>
       /\ compFile = File(<<72, 85, 70, 49, 0, 0, 0, 0, 0, 0>>)
       /\ result = Result(0, 10, 0)
       /\ encTree.nodes = <<>>
  /\ (DecodedCodecFile("huffmanDecompressFile") /\ inFile.data = <<>>) =>
       /\ decTree.nodes = <<>>
       /\ decTree.root = nullptr
       /\ outFile = File(<<>>)
       /\ result = Result(10, 0, 0)

\* the empty file decoded from the 10-byte header
HuffmanEmptyInputWitness ==
  /\ DecodedCodecFile("huffmanDecompressFile")
  /\ inFile.exists
  /\ inFile.data = <<>>
  /\ Len(compFile.data) = 10
  /\ outFile = File(<<>>)

\* C15: scenario 2, one-symbol input.  For n >= 1 copies of one byte value s
\* the tree is a single leaf, s has the one-bit code 0, the header has
\* symbolCount 1 and the entry (s, n), the payload is ceil(n/8) zero bytes,
\* and decoding gives n copies of s.
HuffmanOneSymbol ==
  LET n == Len(inFile.data)
      sym == inFile.data[1]
  IN /\ (op = "huffmanCompressFile" /\ inFile.exists /\ OneSymbol(inFile.data) /\ outOk) =>
          /\ encTree = [nodes |-> <<HuffNode(sym, n, nullptr, nullptr)>>, root |-> 1]
          /\ buildCodeTable(encTree.nodes, encTree.root, <<>>, NoCodes)[sym] = <<0>>
          /\ compFile =
               File(<<72, 85, 70, 49, n, 0, 0, 0, 1, 0, sym, n, 0, 0, 0>>
                    \o [i \in 1..((n + 7) \div 8) |-> 0])
          /\ result.error = 0
     /\ (DecodedCodecFile("huffmanDecompressFile") /\ OneSymbol(inFile.data)) =>
          /\ result.error = 0
          /\ outFile = File([i \in 1..n |-> sym])

\* ten copies of A, decoded
HuffmanOneSymbolWitness ==
  /\ DecodedCodecFile("huffmanDecompressFile")
  /\ inFile.data = <<65, 65, 65, 65, 65, 65, 65, 65, 65, 65>>
  /\ Len(compFile.data) = 17
  /\ outFile = inFile

\* at some position at least minMatch bytes repeat a substring that starts
\* earlier, within the window
HasRepeat(in) ==
  \E pos \in 1..(Len(in) - minMatch) : \E j \in 0..(pos - 1) :
    /\ pos - j <= windowSize
    /\ \A k \in 1..minMatch : in[j + k] = in[pos + k]

ABABABABAB == <<65, 66, 65, 66, 65, 66, 65, 66, 65, 66>>

\* C16: scenario 3 generalised.  lzssCompressBuffer emits at least one match
\* token exactly when some position repeats at least 3 bytes of an earlier
\* substring within the window (for ABABABABAB a match with offset 2), only
\* literals otherwise; in both cases the stream decodes to the input.
LzssEmitsMatches ==
  (op = "lzssCompressFile" /\ inFile.exists /\ opened) =>
    LET t == lzssDecompressBuffer(compFile.data)
    IN /\ HasRepeat(inFile.data) <=> t.records # <<>>
       /\ inFile.data = ABABABABAB =>
            \E i \in 1..Len(t.records) : t.records[i].off = 2
       /\ t.ok
       /\ t.out = inFile.data

\* ABABABABAB compressed: two literals, then one match
LzssEmitsMatchesWitness ==
  /\ op = "lzssCompressFile"
  /\ opened
  /\ inFile.data = ABABABABAB
  /\ compFile.data = <<4, 65, 66, 2, 0, 8>>

\* the payload bits of a code for a histogram: frequency times code length
RECURSIVE codeCost(_, _, _)
codeCost(freqs, lengths, todo) ==
  IF todo = {} THEN 0
  ELSE LET sym == SetMin(todo)
       IN freqs[sym] * lengths[sym] + codeCost(freqs, lengths, todo \ {sym})

\* Kraft's inequality: code lengths of at most maxLen bits that some
\* prefix-free code has
RECURSIVE kraftSum(_, _, _)
kraftSum(lengths, maxLen, todo) ==
  IF todo = {} THEN 0
  ELSE LET sym == SetMin(todo)
       IN 2 ^ (maxLen - lengths[sym]) + kraftSum(lengths, maxLen, todo \ {sym})
PrefixFreeLengths(symbols) ==
  {lengths \in [symbols -> 1..Cardinality(symbols)] :
     kraftSum(lengths, Cardinality(symbols), symbols) <= 2 ^ Cardinality(symbols)}

\* C18: Huffman code optimality.  For every non-empty histogram the code
\* table of buildTree and buildCodeTable has the least total payload length,
\* the sum of frequency times code length, among all prefix-free codes that
\* give every present symbol at least one bit.
HuffmanOptimal ==
  (op = "huffmanCompressFile" /\ inFile.exists /\ inFile.data # <<>>) =>
    LET freqs == histogram(inFile.data)
        codes == buildCodeTable(encTree.nodes, encTree.root, <<>>, NoCodes)
        mine == [sym \in Present(freqs) |-> Len(codes[sym])]
    IN /\ \A sym \in Present(freqs) : mine[sym] >= 1
       /\ \A lengths \in PrefixFreeLengths(Present(freqs)) :
            codeCost(freqs, mine, Present(freqs))
              <= codeCost(freqs, lengths, Present(freqs))

\* a histogram of four symbols with counts 1, 2, 3, 3
HuffmanOptimalWitness ==
  /\ op = "huffmanCompressFile"
  /\ histogram(inFile.data)[65] = 1
  /\ histogram(inFile.data)[66] = 2
  /\ histogram(inFile.data)[67] = 3
  /\ histogram(inFile.data)[68] = 3
  /\ Len(encTree.nodes) = 7

\* the shape the merge loop gives a tree for the histogram freqs
TreeShape(tree, freqs) ==
  LET nodes == tree.nodes
      ids == 1..Len(nodes)
      leaves == {i \in ids : isLeaf(nodes[i])}
  IN /\ tree.root \in ids
     /\ \A i \in ids \ leaves :
          /\ nodes[i].left \in ids
          /\ nodes[i].right \in ids
          /\ nodes[i].freq = nodes[nodes[i].left].freq + nodes[nodes[i].right].freq
          /\ nodes[nodes[i].left].freq <= nodes[nodes[i].right].freq
     /\ Cardinality(leaves) = Cardinality(Present(freqs))
     /\ {nodes[i].symbol : i \in leaves} = Present(freqs)
     /\ \A i \in leaves : nodes[i].freq = freqs[nodes[i].symbol]
     /\ Cardinality(SeqToSet(freeTree(nodes, tree.root))) = Len(nodes)
     /\ Len(freeTree(nodes, tree.root)) = Len(nodes)
     /\ nodes[tree.root].freq = codeCost(freqs, [s \in Byte |-> 1], Present(freqs))

\* C20: prefix-tree shape.  For every histogram with at least two symbols of
\* nonzero frequency, in the tree buildTree returns every internal node has
\* exactly two children and the sum of their weights as its weight, the left
\* child's weight is at most the right child's, there is exactly one leaf per
\* present symbol, and the root's weight is the sum of all frequencies.
TreeShapeHolds ==
  /\ (op = "huffmanCompressFile" /\ inFile.exists
        /\ Cardinality(SeqToSet(inFile.data)) >= 2) =>
       TreeShape(encTree, histogram(inFile.data))
  /\ (op = "huffmanDecompressFile" /\ decTree.root # nullptr
        /\ Cardinality(Present(huffTable(compFile.data).freqs)) >= 2) =>
       TreeShape(decTree, huffTable(compFile.data).freqs)

\* a tree of four leaves with an internal node whose children differ in weight
TreeShapeHoldsWitness ==
  /\ op = "huffmanDecompressFile"
  /\ Len(decTree.nodes) = 7
  /\ decTree = encTree
  /\ \E i \in 1..Len(decTree.nodes) :
       /\ ~isLeaf(decTree.nodes[i])
       /\ decTree.nodes[decTree.nodes[i].left].freq
            < decTree.nodes[decTree.nodes[i].right].freq

\* the image a PPM input file holds, and whether it is w x h
isImage(f, w, h) ==
  /\ f.exists
  /\ loadPpmP6(f).ok
  /\ loadPpmP6(f).w = w
  /\ loadPpmP6(f).h = h

\* C12: DCT file layout.  For every successfully compressed image of width
\* w and height h, the .dct file is the 9-byte header (DCT1, w, h as u16,
\* channels 1) followed by ceil(w/8) * ceil(h/8) blocks of 128 bytes, so its
\* size is 9 + 128 * ceil(w/8) * ceil(h/8).
DctFileLayout ==
  (op = "dctCompressFile" /\ outcome = "returned" /\ result.error = 0) =>
    LET img == loadPpmP6(inFile)
    IN /\ compFile.exists
       /\ Len(compFile.data) >= headerBytes
       /\ Prefix(compFile.data, 4) = DCT1
       /\ dctWidth(compFile.data) = img.w
       /\ dctHeight(compFile.data) = img.h
       /\ compFile.data[headerBytes] = 1
       /\ Len(compFile.data)
            = headerBytes
              + blockBytes * CeilDiv(img.w, block) * CeilDiv(img.h, block)

\* the decoded file is a PGM image of width x height samples
isPgm(f, width, height) ==
  /\ f.exists
  /\ Len(f.data) = Len(pgmHeader(width, height)) + width * height
  /\ Prefix(f.data, Len(pgmHeader(width, height))) = pgmHeader(width, height)

\* C13: Scenario 4 file size.  Compressing a 16x16 image with the transform
\* coder produces a .dct file of 9 + (16/8) * (16/8) * 64 * 2 = 521 bytes,
\* and the decoded image is 16x16.
Scenario4FileSize ==
  /\ (isImage(inFile, 16, 16) /\ op = "dctCompressFile" /\ result.error = 0)
       => (Len(compFile.data) = 521 /\ result.bytesOut = 521)
  /\ (isImage(inFile, 16, 16) /\ op = "dctDecompressFile" /\ origin = "codec"
        /\ result.error = 0)
       => (Len(compFile.data) = 521 /\ isPgm(outFile, 16, 16))

\* C13 as the specification states it: a .dct file of 530 bytes.
Scenario4FileSize530 ==
  /\ (isImage(inFile, 16, 16) /\ op = "dctCompressFile" /\ result.error = 0)
       => (Len(compFile.data) = 530 /\ result.bytesOut = 530)
  /\ (isImage(inFile, 16, 16) /\ op = "dctDecompressFile" /\ origin = "codec"
        /\ result.error = 0)
       => (Len(compFile.data) = 530 /\ isPgm(outFile, 16, 16))

\* a 16x16 image was compressed and its .dct file decoded
Scenario4FileSizeWitness ==
  /\ isImage(inFile, 16, 16)
  /\ op = "dctDecompressFile"
  /\ origin = "codec"
  /\ result = Result(521, 269, 0)
  /\ isPgm(outFile, 16, 16)

\* the sum over the samples of |luma of the input - decoded sample|, in units
\* of 1/8, for a w x h image and its decoded PGM file
magnitude(v) == IF v < 0 THEN 0 - v ELSE v
sampleError(in, at, out, to) ==
  magnitude(luma(byteAt(in, at), byteAt(in, at + 1), byteAt(in, at + 2))
            - 8 * byteAt(out, to))
absErrorFrom(in, at, out, to, n) ==
  sumTo([i \in 0..(n - 1) |-> sampleError(in, at + 3 * i, out, to + i)], n - 1)
absError(in, out, w, h) ==
  absErrorFrom(in, loadPpmP6(in).at, out, Len(pgmHeader(w, h)), w * h)

\* C19: lossy round-trip error bound.  For a smooth 16x16 gradient image the
\* mean absolute difference between the luma of the input and the samples
\* written by dctDecompressFile after dctCompressFile is below 5.
GradientErrorBound ==
  ( /\ inFile.exists
    /\ inFile.data \in Gradients
    /\ op = "dctDecompressFile"
    /\ origin = "codec"
    /\ outcome = "returned"
    /\ result.error = 0 )
  => absError(inFile, outFile, 16, 16) < 5 * 8 * 256

\* a gradient that the round trip did not reproduce exactly
GradientErrorBoundWitness ==
  /\ inFile.exists
  /\ inFile.data \in Gradients
  /\ inFile.data # gradient(16, 16, 0, 0, 0)
  /\ op = "dctDecompressFile"
  /\ origin = "codec"
  /\ result.error = 0
  /\ absError(inFile, outFile, 16, 16) > 0
  /\ absError(inFile, outFile, 16, 16) < 5 * 8 * 256

\* the Result a dispatch call hands back is one the codec entry point gives
\* on the same files
compressResult(algo, r) ==
  IF algo = HUFFMAN THEN r = huffmanCompressFile(inFile, compFile, outOk').r
  ELSE IF algo = LZSS THEN r = lzssCompressFile(inFile, compFile, outOk').r
  ELSE \E c \in dctCompressFile(inFile, compFile, outOk') : r = c.r
decompressResult(algo, r) ==
  IF algo = HUFFMAN THEN r = huffmanDecompressFile(compFile, outFile, outOk').r
  ELSE IF algo = LZSS THEN r = lzssDecompressFile(compFile, outFile, outOk').r
  ELSE \E c \in dctDecompressFile(compFile, outFile, outOk') : r = c.r

\* C17: dispatch.  For HUFFMAN, LZSS and DCT, a compressFile or
\* decompressFile call that returns hands back the Result of the
\* corresponding codec entry point (for DCT decompression that of
\* dctDecompressFile); for any other selector it returns error -99 with
\* bytesIn = bytesOut = 0, runs no codec and leaves every file alone.
DispatchContract ==
  [][(call'.entry \in {"compressFile", "decompressFile"}
      /\ outcome' # "crashed")
     => IF call'.algo \in {HUFFMAN, LZSS, DCT}
        THEN IF call'.entry = "compressFile"
             THEN compressResult(call'.algo, result')
             ELSE decompressResult(call'.algo, result')
        ELSE /\ result' = Result(0, 0, -99)
             /\ op' = "none"
             /\ ~opened'
             /\ UNCHANGED <<inFile, compFile, outFile>>]_vars

\* the node a bit string leads to from node: 0 to the left child, 1 to the
\* right one
RECURSIVE pathEnd(_, _, _)
pathEnd(nodes, node, bits) ==
  IF bits = <<>> \/ node = nullptr THEN node
  ELSE pathEnd(nodes,
               IF Head(bits) = 0 THEN nodes[node].left ELSE nodes[node].right,
               Tail(bits))
isPrefix(a, b) == Len(a) <= Len(b) /\ SubSeq(b, 1, Len(a)) = a
\* the code of s is the path from the root to the leaf of s (for a tree of one
\* leaf that path is empty and the code is the single bit 0)
codeOfLeaf(tree, code, s) ==
  IF isLeaf(tree.nodes[tree.root])
  THEN code = <<0>> /\ tree.nodes[tree.root].symbol = s
  ELSE /\ pathEnd(tree.nodes, tree.root, code) # nullptr
       /\ isLeaf(tree.nodes[pathEnd(tree.nodes, tree.root, code)])
       /\ tree.nodes[pathEnd(tree.nodes, tree.root, code)].symbol = s
prefixFree(freqs, tree, codes) ==
  \A s \in Byte :
    IF freqs[s] = 0 THEN codes[s] = <<>>
    ELSE /\ codes[s] # <<>>
         /\ codeOfLeaf(tree, codes[s], s)
         /\ \A t \in Present(freqs) \ {s} : ~isPrefix(codes[s], codes[t])

\* C21: prefix-free code table.  For every non-empty histogram, every symbol
\* with nonzero frequency gets a non-empty bit sequence (left = 0, right = 1
\* along its root-to-leaf path), symbols with zero frequency get none, and no
\* symbol's code is a prefix of another symbol's code.
PrefixFreeTable ==
  (op = "huffmanCompressFile" /\ inFile.exists /\ contents(inFile) # <<>>) =>
     prefixFree(histogram(contents(inFile)), encTree,
                buildCodeTable(encTree.nodes, encTree.root, <<>>, NoCodes))

\* four symbols whose codes have one, two and three bits
PrefixFreeTableWitness ==
  /\ op = "huffmanCompressFile"
  /\ Cardinality(SeqToSet(contents(inFile))) = 4
  /\ {Len(buildCodeTable(encTree.nodes, encTree.root, <<>>, NoCodes)[s]) :
        s \in HistSymbols} = {1, 2, 3}

\* the m bytes at j (0-based) equal the m bytes at pos
matches(in, j, pos, m) == \A i \in 0..(m - 1) : in[j + i + 1] = in[pos + i + 1]
Min(a, b) == IF a < b THEN a ELSE b
Max(a, b) == IF a > b THEN a ELSE b
\* some start in the window of pos begins a repeat of at least 3 bytes
hasCandidate(in, pos) ==
  /\ Len(in) - pos >= 3
  /\ \E j \in Max(0, pos - 4096)..(pos - 1) : matches(in, j, pos, 3)
\* a match record of the stream, emitted at input position rec.outSize
recordInBounds(in, rec) ==
  /\ 1 <= rec.off
  /\ rec.off <= Min(rec.outSize, 4096)
  /\ 3 <= rec.length
  /\ rec.length <= Min(18, Len(in) - rec.outSize)
  /\ findBestMatch(in, rec.outSize, Params)
       = [offset |-> rec.off, length |-> rec.length]
\* the input positions emitted as literals between match record i and the
\* next one (before the first one for i = 0, after the last one for i = k)
literalsAfter(recs, n, i) ==
  (IF i = 0 THEN 0 ELSE recs[i].outSize + recs[i].length)
  ..((IF i = Len(recs) THEN n ELSE recs[i + 1].outSize) - 1)
literalInBounds(in, pos) ==
  /\ ~hasCandidate(in, pos)
  /\ findBestMatch(in, pos, Params) = NoMatch
\* t: the tokens of the stream as the decoder reads them
matchBounds(in, t) ==
  /\ t.ok
  /\ t.out = in
  /\ \A i \in 1..Len(t.records) : recordInBounds(in, t.records[i])
  /\ \A i \in 0..Len(t.records) :
       \A pos \in literalsAfter(t.records, Len(in), i) : literalInBounds(in, pos)

\* C22: LZSS match bounds.  Every match token lzssCompressBuffer emits at
\* input position pos has 1 <= offset <= min(pos, 4096) and
\* 3 <= length <= min(18, n - pos), so the 16-bit offset field and the 8-bit
\* length field of the record hold them without truncation; a position with
\* no candidate of length >= 3 yields length 0 and is emitted as a literal.
LzssMatchBounds ==
  (op = "lzssCompressFile" /\ inFile.exists /\ outOk) =>
     matchBounds(contents(inFile), lzssDecompressBuffer(compFile.data))

\* a match at a position beyond the window, reaching back the whole window
LzssMatchBoundsWitness ==
  /\ op = "lzssCompressFile"
  /\ outOk
  /\ fileSize(inFile) > 4096 + 18
  /\ \E i \in 1..Len(lzssDecompressBuffer(compFile.data).records) :
       /\ lzssDecompressBuffer(compFile.data).records[i].off = 4096
       /\ lzssDecompressBuffer(compFile.data).records[i].outSize > 4096
       /\ lzssDecompressBuffer(compFile.data).records[i].length = 18

\* best is what the search policy asks for at pos: no match when no start in
\* the window repeats 3 bytes; otherwise a repeat of best.length bytes, at most
\* cap, that no start in the window extends by one more byte and that no
\* earlier start in the window reaches
searchPolicy(in, pos, cap, windowStart, best) ==
  IF best.length = 0
  THEN /\ best.offset = 0
       /\ cap < 3 \/ \A j \in windowStart..(pos - 1) : ~matches(in, j, pos, 3)
  ELSE /\ best.length >= 3
       /\ best.length <= cap
       /\ pos - best.offset \in windowStart..(pos - 1)
       /\ matches(in, pos - best.offset, pos, best.length)
       /\ best.length < cap =>
            \A j \in windowStart..(pos - 1) :
               ~matches(in, j, pos, best.length + 1)
       /\ \A j \in windowStart..(pos - best.offset - 1) :
            ~matches(in, j, pos, best.length)
searchPolicyHolds(in) ==
  \A pos \in 1..(Len(in) - 1) :
    searchPolicy(in, pos, Min(18, Len(in) - pos), Max(0, pos - 4096),
                 findBestMatch(in, pos, Params))

\* C23: LZSS search policy.  For every input and position pos > 0,
\* findBestMatch returns the maximum, over the starts j in
\* [max(0, pos - 4096), pos), of the common-prefix length of in[j..] and
\* in[pos..] capped at min(18, n - pos) (0 when that maximum is below 3), and
\* among the starts reaching the maximum the smallest one.
LzssSearchPolicy ==
  (op = "lzssCompressFile" /\ inFile.exists) => searchPolicyHolds(contents(inFile))

\* ABC1ABC2ABC3 compressed: at position 8 the starts 0 and 4 both repeat 3
\* bytes and the match goes back 8
LzssSearchPolicyWitness ==
  /\ op = "lzssCompressFile"
  /\ outOk
  /\ inFile.data = <<65, 66, 67, 1, 65, 66, 67, 2, 65, 66, 67, 3>>
  /\ compFile.data = <<80, 65, 66, 67, 1, 4, 0, 3, 2, 8, 0, 3, 3>>

\* f[lo] \o ... \o f[hi]
RECURSIVE concatRange(_, _, _)
concatRange(f, lo, hi) ==
  IF lo > hi THEN <<>>
  ELSE IF lo = hi THEN f[lo]
  ELSE concatRange(f, lo, (lo + hi) \div 2)
       \o concatRange(f, (lo + hi) \div 2 + 1, hi)
\* the token emitted at input position pos: a match record (offset low byte,
\* offset high byte, length) or the literal byte
tokenOf(in, pos, best) ==
  IF best.length > 0
  THEN [match |-> TRUE,
        bytes |-> <<best.offset % 256, best.offset \div 256, best.length>>]
  ELSE [match |-> FALSE, bytes |-> <<in[pos + 1]>>]
literalTokens(in, positions) ==
  [q \in 1..Cardinality(positions) |->
     tokenOf(in, SetMin(positions) + q - 1,
             findBestMatch(in, SetMin(positions) + q - 1, Params))]
\* the tokens in input order, at the positions the records and the literals
\* between them start
tokensOf(in, recs) ==
  concatRange([i \in 0..Len(recs) |->
                 (IF literalsAfter(recs, Len(in), i) = {} THEN <<>>
                  ELSE literalTokens(in, literalsAfter(recs, Len(in), i)))
                 \o (IF i = Len(recs) THEN <<>>
                     ELSE <<tokenOf(in, recs[i + 1].outSize,
                                    findBestMatch(in, recs[i + 1].outSize, Params))>>)],
              0, Len(recs))
\* group g (from 0) of the tokens: the flag byte with bit i set exactly for a
\* match at token i of the group, then the bytes of its up to 8 tokens
groupOf(toks, g) ==
  <<sumOver([i \in 0..7 |->
               IF 8 * g + i < Len(toks) /\ toks[8 * g + i + 1].match
               THEN 2 ^ i ELSE 0], 0..7)>>
  \o concatRange([i \in 1..Len(toks) |-> toks[i].bytes],
                 8 * g + 1, Min(8 * g + 8, Len(toks)))
groupsOf(toks) ==
  concatRange([g \in 0..((Len(toks) + 7) \div 8 - 1) |-> groupOf(toks, g)],
              0, (Len(toks) + 7) \div 8 - 1)
groupEncoding(in, t, stream) ==
  /\ t.ok
  /\ t.out = in
  /\ stream = groupsOf(tokensOf(in, t.records))

\* C24: LZSS group encoding.  The output of lzssCompressBuffer is a sequence
\* of groups, each one flag byte followed by 1 to 8 tokens; only the last
\* group may hold fewer than 8 tokens; bit i of the flag byte is 1 exactly
\* when token i of the group is a 3-byte match record (offset low byte, offset
\* high byte, length); flag bits beyond the last token are 0; an empty input
\* produces an empty output.
LzssGroupEncoding ==
  (op = "lzssCompressFile" /\ inFile.exists /\ outOk) =>
     /\ groupEncoding(contents(inFile), lzssDecompressBuffer(compFile.data),
                      compFile.data)
     /\ contents(inFile) = <<>> => compFile.data = <<>>

\* a run of 4096 bytes: the literal A and 228 matches in 28 full groups (the
\* first with flag byte 254, the others 255) and a last group of 5 tokens
\* with flag byte 31
LzssGroupEncodingWitness ==
  /\ op = "lzssCompressFile"
  /\ outOk
  /\ inFile = FilledFile(<<>>, 4096, 65)
  /\ Len(compFile.data) = 714
  /\ compFile.data[1] = 254
  /\ compFile.data[24] = 255
  /\ compFile.data[699] = 31

\* how the decode loop of huffmanDecompressFile ends on the file is with the
\* tree it rebuilt: "done", "eof" or "nochild"
walkStatus(is, tree) ==
  decodeSymbols(tree, is, BitReader(huffTable(is).pos), <<>>,
                huffOrigSize(is)).status
\* the last call was a huffmanDecompressFile that reached its decode loop
walkedTree ==
  /\ op = "huffmanDecompressFile"
  /\ compFile.exists
  /\ huffWellFormed(compFile.data)
  /\ huffOrigSize(compFile.data) > 0
  /\ decTree.root # nullptr

\* C28: unreachable tree-walk dead end.  For every input file, when
\* huffmanDecompressFile walks the rebuilt tree, following a bit from a
\* non-leaf node always reaches an existing child, so the missing-child error
\* return is never taken; the only failures of the decode loop are running
\* out of bits.
NoMissingChild ==
  walkedTree =>
    /\ \A i \in 1..Len(decTree.nodes) :
         isLeaf(decTree.nodes[i])
         \/ (decTree.nodes[i].left # nullptr /\ decTree.nodes[i].right # nullptr)
    /\ walkStatus(compFile.data, decTree) # "nochild"
    /\ result.error = -3 => walkStatus(compFile.data, decTree) = "eof"

\* a walk through a tree with internal nodes that runs out of bits after
\* it has followed the bits of at least one payload byte
NoMissingChildWitness ==
  /\ walkedTree
  /\ Len(decTree.nodes) >= 3
  /\ Len(compFile.data) > huffTable(compFile.data).pos
  /\ result.error = -3
  /\ walkStatus(compFile.data, decTree) = "eof"

\* the padded dimensions hold an image of width x height: multiples of the
\* block size, no smaller than the image, and the last index y * paddedW + x
\* of the image lies inside the buffer of paddedW * paddedH samples
holdsImage(width, height, paddedW, paddedH) ==
  /\ paddedW % 8 = 0
  /\ paddedH % 8 = 0
  /\ paddedW >= width
  /\ paddedH >= height
  /\ (height - 1) * paddedW + (width - 1) < paddedW * paddedH

\* C30: DCT padded geometry.  For every header width and height in 1..65535
\* the 16-bit padded dimensions dctDecompressFile computes are multiples of 8
\* with paddedW >= width and paddedH >= height, so every index
\* y * paddedW + x used when storing blocks and when cropping is inside the
\* padded buffer.
DctPaddedGeometry ==
  (op = "dctDecompressFile" /\ compFile.exists /\ dctHeaderValid(compFile.data)) =>
     /\ holdsImage(dctWidth(compFile.data), dctHeight(compFile.data),
                   paddedSize(dctWidth(compFile.data)),
                   paddedSize(dctHeight(compFile.data)))
     /\ outcome = "returned"

ranLibrary(cmds) ==
  /\ handled.cmd \in cmds
  /\ handled.libCalls = 1
  /\ outcome # "crashed"

\* C25: front-end result codes.  For a library error e < 0, COMPRESS_FILE
\* and DECOMPRESS_FILE both report the code -e in the failure event and in
\* the LastResultCode channel, and both answer EXECUTION_ERROR.
ResultCodeMirrored ==
  (ranLibrary({"COMPRESS_FILE", "DECOMPRESS_FILE"}) /\ result.error < 0) =>
    /\ handled.responses = <<"EXECUTION_ERROR">>
    /\ handled.events[2].code = ToU32(0 - result.error)
    /\ tlm.LastResultCode = <<ToU32(0 - result.error)>>

\* the commands that run a codec or the folder stub
CodecCommands == {"COMPRESS_FILE", "COMPRESS_FOLDER", "DECOMPRESS_FILE"}

\* C26: LastAlgo telemetry.  The LastAlgo channel changes only when a
\* compression or decompression command passed validation and ran, and
\* then holds that command's algorithm; a command that runs no codec leaves
\* it alone.
LastAlgoOfLastRun ==
  [][IF handled'.cmd \in CodecCommands /\ handled'.libCalls = 1
        /\ outcome' # "crashed"
     THEN tlm'.LastAlgo = <<handled'.algo>>
     ELSE tlm'.LastAlgo = tlm.LastAlgo]_vars

\* C27: front-end command protocol.  Every command gets exactly one
\* response; a command with an algorithm outside {HUFFMAN, LZSS, DCT}, or
\* DECOMPRESS_FILE with an empty path, calls no library function, writes no
\* telemetry channel and leaves m_runtimeDefaultAlgo alone; the response of
\* a command that called the library is OK exactly when the result code is 0.
CommandProtocol ==
  [][/\ Len(handled'.responses) = 1
     /\ (handled'.cmd # "PING"
           /\ (~algoIsValid(handled'.algo)
                 \/ (handled'.cmd = "DECOMPRESS_FILE" /\ handled'.path = ""))
         => /\ handled'.libCalls = 0
            /\ handled'.writes = <<>>
            /\ UNCHANGED <<tlm, m_runtimeDefaultAlgo, result, call, op,
                           inFile, compFile, outFile>>)
     /\ (handled'.libCalls = 1
         => (handled'.responses = <<"OK">> <=> result'.error = 0))]_vars
====
